---------------------------- MODULE Spec2Model ----------------------------
(***************************************************************************)
(* Task orchestration engine of strm-poller (src/src/core/task_manager.py).*)
(*                                                                         *)
(* The persistent store is taken as a plain CRUD store: an assignment to a *)
(* mapped attribute followed by db.commit() writes that attribute to the   *)
(* row, and a db.add(record) followed by db.commit() inserts the row.      *)
(* Handlers and workers are coroutines on one event loop; every action     *)
(* below is the code executed between two suspension points (await).       *)
(* The filesystem and the scrapers are inputs: what a scan finds and       *)
(* whether a file can be read, scraped and copied is chosen anew each time *)
(* the worker asks.  The worker reaches the scrapers through the attribute *)
(* task_manager.scraper_manager, which is None until something assigns it; *)
(* the engine is modelled for any object assigned there that answers the   *)
(* call of line 382.                                                       *)
(*                                                                         *)
(* The other components (resolver chain of scrapers.py, debounce handler   *)
(* of watcher.py, memory check of proxy_memory.py, file name parsing) have *)
(* their own variables and their own specifications below.                 *)
(***************************************************************************)
EXTENDS Integers, Sequences, FiniteSets, TLC

(* ------------------------------ bounds -------------------------------- *)
\* number of tasks created (Spec; SpecTasks creates one more)
MaxTasks == 1
\* number of distinct marker paths a scan can find (Spec; SpecTasks one less)
MaxPaths == 2
\* number of TaskWorker objects ever constructed (start_task calls that pass)
MaxWorkers == 2
\* largest value of settings.retry_count explored
MaxRetrySetting == 1

\* scraper classes modelled: the first MaxScrapers of the six of
\* ScraperManager._init_scrapers
MaxScrapers == 3
\* largest 'priority' a scraper config carries
MaxPriority == 2
\* the 'retry_count' of every scraper config
MaxScrapeRetry == 1
\* largest 'retry_count' of the scraper whose attempts are followed one by one
MaxRetryCount == 2

\* root paths a FileWatcher is asked to watch
MaxRoots == 2
\* STRMFileHandler objects a FileWatcher constructs (add_watch_path calls
\* that pass)
MaxHandlers == 2
\* "changed" signals followed
MaxSignals == 2
\* items put on STRMFileProcessor.processing_queue
MaxItems == 3

\* marker paths under the watched directory
MaxWatchPaths == 1
\* create/modify events delivered for one path
MaxEvents == 3
\* settings.watch_debounce_seconds, in clock ticks
DebounceTicks == 2

\* largest max_memory_mb a MemoryManager is constructed with
MaxMemoryMb == 100
\* largest resident set size measured, in MiB
MaxRssMb == 120
\* alert callbacks registered with a ResourceMonitor
MaxCallbacks == 2
\* seconds of wall clock a monitor loop is followed for
MaxClock == 3700

\* every task id either specification uses
TaskIds == 1..(MaxTasks + 1)
WorkerIds == 1..MaxWorkers

VARIABLES
    tasks,          \* table "tasks": id -> row (DOMAIN = existing ids)
    file_records,   \* table "file_records": sequence of rows, in id order
    task_workers,   \* TaskManager.task_workers: task id -> worker
    workers,        \* every TaskWorker constructed so far, in construction order
    settings_retry_count,   \* settings.retry_count
    result,         \* what the TaskManager operation of the last step
                    \* returned (NoResult after any other step)
    pause_stopped,  \* history: the workers a pause_task that returned True
                    \* has stopped
    made_dirs,      \* destination directories made by create_task, each
                    \* named by the id of the task it was made for
    retry_reset,    \* history: <<w, k>> when the retry_failed_files call
                    \* that started worker w reset file record k
    scraper_manager,    \* scrapers.ScraperManager and its scrape_media call
    handler,            \* watcher.STRMFileHandler and its debounce timers
    memory_manager,     \* proxy_memory.MemoryManager
    media,              \* a file name and the media info extracted from it
    base_scraper,       \* one scrapers.BaseScraper and its scrape call
    file_process,       \* one TaskWorker._process_strm_file call of a worker
    organizer,          \* the destination tree written by TaskWorker._organize_file
    file_watcher,       \* watcher.FileWatcher as held by STRMFileProcessor
    file_processor,     \* watcher.STRMFileProcessor: processing_queue and its consumer
    resource_monitor    \* proxy_memory.ResourceMonitor and its monitor task

\* the variables of the task engine and those of the other components
engine_vars == <<tasks, file_records, task_workers, workers,
                 settings_retry_count, result, pause_stopped, made_dirs,
                 retry_reset>>
outside_engine == <<scraper_manager, handler, memory_manager, media,
                    base_scraper, file_process, organizer, file_watcher,
                    file_processor, resource_monitor>>

vars == <<engine_vars, outside_engine>>

NoResult == [op |-> "none", task_id |-> 0, value |-> 0]

(* --------------------------- pure helpers ----------------------------- *)
RECURSIVE GCD(_, _)
GCD(a, b) == IF b = 0 THEN a ELSE GCD(b, a % b)

\* the float (done / total * 100), kept as the reduced fraction done/total
Progress(done, total) ==
    LET g == GCD(done, total) IN [num |-> done \div g, den |-> total \div g]

\* Task.progress column default 0.0 and the literal 100.0
Progress0 == [num |-> 0, den |-> 1]
Progress100 == [num |-> 1, den |-> 1]

ProgressLeq(p, q) == p.num * q.den <= q.num * p.den

Min(S) == CHOOSE x \in S : \A y \in S : x <= y

\* os.walk over the source tree, keeping the *.strm files; the paths are
\* numbered in the order in which os.walk lists them
RECURSIVE _scan_strm_files(_)
_scan_strm_files(S) ==
    IF S = {} THEN <<>> ELSE <<Min(S)>> \o _scan_strm_files(S \ {Min(S)})

\* Task(...) as inserted by create_task, with the column defaults
NewTask == [status |-> "pending", progress |-> Progress0, total_files |-> 0,
            processed_files |-> 0, failed_files |-> 0,
            started_at |-> FALSE, completed_at |-> FALSE,
            error_message |-> "None"]

\* FileRecord(...) as constructed by the worker, with the column defaults
NewFileRecord(t, path, st, msg) ==
    [task_id |-> t, source_path |-> path, status |-> st,
     retry_count |-> 0, error_message |-> msg]

\* TaskWorker.__init__
NewTaskWorker(t) ==
    [task_id |-> t, running |-> FALSE, pc |-> "created", strm_files |-> <<>>,
     i |-> 0, processed_count |-> 0, failed_count |-> 0]

\* the components outside the task engine, not constructed
NoScraperManager == [pc |-> "none"]
NoHandler == [pc |-> "none"]
NoMemoryManager == [pc |-> "none"]
NoMedia == [pc |-> "none"]
NoBaseScraper == [pc |-> "none"]
NoResourceMonitor == [pc |-> "none"]
NoFileProcessor == [pc |-> "none"]
NoFileWatcher == [pc |-> "none"]
NoOrganizer == [pc |-> "none"]
NoFileProcess == [pc |-> "none"]

(* ------------------------------- Init --------------------------------- *)
\* the task engine after construction (TaskManager.__init__, empty tables)
TaskManagerInit ==
    /\ tasks = <<>>
    /\ file_records = <<>>
    /\ task_workers = <<>>
    /\ workers = <<>>
    /\ settings_retry_count \in 0..MaxRetrySetting
    /\ result = NoResult
    /\ pause_stopped = {}
    /\ made_dirs = {}
    /\ retry_reset = {}

Init ==
    /\ TaskManagerInit
    /\ scraper_manager = NoScraperManager
    /\ handler = NoHandler
    /\ memory_manager = NoMemoryManager
    /\ media = NoMedia
    /\ base_scraper = NoBaseScraper
    /\ file_process = NoFileProcess
    /\ organizer = NoOrganizer
    /\ file_watcher = NoFileWatcher
    /\ file_processor = NoFileProcessor
    /\ resource_monitor = NoResourceMonitor

(* -------------------------- TaskManager ------------------------------- *)
\* dict helpers for task_workers
DictSet(d, k, v) == [x \in DOMAIN d \cup {k} |-> IF x = k THEN v ELSE d[x]]
DictDel(d, k) == [x \in DOMAIN d \ {k} |-> d[x]]

\* TaskWorker.stop
stop(ws, w) == [ws EXCEPT ![w].running = FALSE]

\* the id SQLite gives the next Task row: one more than the largest id in
\* the table (the column is a plain INTEGER PRIMARY KEY)
NextTaskId ==
    IF DOMAIN tasks = {} THEN 1
    ELSE 1 + (CHOOSE x \in DOMAIN tasks : \A y \in DOMAIN tasks : x >= y)

\* create_task with os.makedirs moved in front of the source check
create_task_makedirs_first(max_tasks, source_exists) ==
    /\ NextTaskId <= max_tasks
    /\ LET id == NextTaskId IN
        /\ made_dirs' = made_dirs \cup {id}
        /\ IF source_exists
           THEN /\ tasks' = DictSet(tasks, id, NewTask)
                /\ result' = [op |-> "create_task", task_id |-> id,
                              value |-> id]
           ELSE /\ UNCHANGED tasks
                /\ result' = [op |-> "create_task raised ValueError",
                              task_id |-> 0, value |-> 0]
    /\ UNCHANGED <<file_records, task_workers, workers,
                   settings_retry_count, pause_stopped>>
    /\ UNCHANGED <<retry_reset, outside_engine>>

\* source_exists is what os.path.exists(source_path) answers; each call
\* names a destination of its own, identified with the id the task gets;
\* os.makedirs and the insert succeed; max_tasks bounds the ids given out
create_task(max_tasks, source_exists) ==
    /\ NextTaskId <= max_tasks
    /\ LET id == NextTaskId IN
        IF source_exists
        THEN /\ made_dirs' = made_dirs \cup {id}
             /\ tasks' = DictSet(tasks, id, NewTask)
             /\ result' = [op |-> "create_task", task_id |-> id, value |-> id]
        ELSE /\ UNCHANGED <<tasks, made_dirs>>
             /\ result' = [op |-> "create_task raised ValueError",
                           task_id |-> 0, value |-> 0]
    /\ UNCHANGED <<file_records, task_workers, workers,
                   settings_retry_count, pause_stopped>>
    /\ UNCHANGED <<retry_reset, outside_engine>>

\* the status check of line 116 with "completed" left out
StartRefused_running_only(t) ==
    \/ t \notin DOMAIN tasks
    \/ tasks[t].status = "running"

\* start_task does nothing and returns False
StartRefused(t) ==
    \/ t \notin DOMAIN tasks
    \/ tasks[t].status \in {"running", "completed"}

\* start_task lines 120-130: mark running, construct and register the worker,
\* schedule execute()
StartUpdate(t) ==
    /\ Len(workers) < MaxWorkers
    /\ tasks' = [tasks EXCEPT ![t].status = "running", ![t].started_at = TRUE]
    /\ workers' = Append(workers, NewTaskWorker(t))
    /\ task_workers' = DictSet(task_workers, t, Len(workers) + 1)

start_task(t) ==
    /\ IF StartRefused(t)
       THEN /\ UNCHANGED <<tasks, workers, task_workers>>
            /\ result' = [op |-> "start_task", task_id |-> t, value |-> FALSE]
       ELSE /\ StartUpdate(t)
            /\ result' = [op |-> "start_task", task_id |-> t, value |-> TRUE]
    /\ UNCHANGED <<file_records, settings_retry_count, pause_stopped>>
    /\ UNCHANGED <<made_dirs, retry_reset, outside_engine>>

\* lines 167-170 / 195-198: stop and unregister the registered worker
StopRegistered(t) ==
    IF t \in DOMAIN task_workers
    THEN /\ workers' = stop(workers, task_workers[t])
         /\ task_workers' = DictDel(task_workers, t)
    ELSE UNCHANGED <<workers, task_workers>>

\* pause_task without its status check (lines 159-161)
pause_task_any_status(t) ==
    /\ IF t \notin DOMAIN tasks
       THEN /\ UNCHANGED <<tasks, workers, task_workers, pause_stopped>>
            /\ result' = [op |-> "pause_task", task_id |-> t, value |-> FALSE]
       ELSE /\ tasks' = [tasks EXCEPT ![t].status = "paused"]
            /\ StopRegistered(t)
            /\ pause_stopped' = pause_stopped \cup
                   {w \in DOMAIN workers :
                       t \in DOMAIN task_workers /\ task_workers[t] = w}
            /\ result' = [op |-> "pause_task", task_id |-> t, value |-> TRUE]
    /\ UNCHANGED <<file_records, settings_retry_count>>
    /\ UNCHANGED <<made_dirs, retry_reset, outside_engine>>

pause_task(t) ==
    /\ IF t \notin DOMAIN tasks \/ tasks[t].status # "running"
       THEN /\ UNCHANGED <<tasks, workers, task_workers, pause_stopped>>
            /\ result' = [op |-> "pause_task", task_id |-> t, value |-> FALSE]
       ELSE /\ tasks' = [tasks EXCEPT ![t].status = "paused"]
            /\ StopRegistered(t)
            /\ pause_stopped' = pause_stopped \cup
                   {w \in DOMAIN workers :
                       t \in DOMAIN task_workers /\ task_workers[t] = w}
            /\ result' = [op |-> "pause_task", task_id |-> t, value |-> TRUE]
    /\ UNCHANGED <<file_records, settings_retry_count>>
    /\ UNCHANGED <<made_dirs, retry_reset, outside_engine>>

cancel_task(t) ==
    /\ IF t \notin DOMAIN tasks
       THEN /\ UNCHANGED <<tasks, workers, task_workers>>
            /\ result' = [op |-> "cancel_task", task_id |-> t, value |-> FALSE]
       ELSE /\ tasks' = [tasks EXCEPT ![t].status = "cancelled"]
            /\ StopRegistered(t)
            /\ result' = [op |-> "cancel_task", task_id |-> t, value |-> TRUE]
    /\ UNCHANGED <<file_records, settings_retry_count, pause_stopped>>
    /\ UNCHANGED <<made_dirs, retry_reset, outside_engine>>

\* api/main.py delete_task: a running task is cancelled first (which stops
\* and unregisters its worker), then the Task row is deleted; no statement
\* touches file_records
delete_task(t) ==
    /\ IF t \notin DOMAIN tasks
       THEN /\ UNCHANGED <<tasks, workers, task_workers>>
            /\ result' = [op |-> "delete_task raised HTTPException",
                          task_id |-> t, value |-> 404]
       ELSE /\ tasks' = DictDel(tasks, t)
            /\ IF tasks[t].status = "running"
               THEN StopRegistered(t)
               ELSE UNCHANGED <<workers, task_workers>>
            /\ result' = [op |-> "delete_task", task_id |-> t, value |-> TRUE]
    /\ UNCHANGED <<file_records, settings_retry_count, pause_stopped>>
    /\ UNCHANGED <<made_dirs, retry_reset, outside_engine>>

\* the query without its task filter
RetryEligible_any_task(r, t) ==
    /\ r.status = "failed"
    /\ r.retry_count < settings_retry_count

\* the query with an off-by-one retry limit
RetryEligible_le(r, t) ==
    /\ r.task_id = t
    /\ r.status = "failed"
    /\ r.retry_count <= settings_retry_count

\* the query of lines 215-219
RetryEligible(r, t) ==
    /\ r.task_id = t
    /\ r.status = "failed"
    /\ r.retry_count < settings_retry_count

\* lines 224-226
ResetRecord(r) ==
    [r EXCEPT !.status = "pending",
              !.retry_count = r.retry_count + 1,
              !.error_message = "None"]

retry_failed_files(t) ==
    LET failed_files == {k \in 1..Len(file_records) :
                            RetryEligible(file_records[k], t)}
        retry_count == Cardinality(failed_files)
    IN  /\ file_records' = [k \in 1..Len(file_records) |->
                              IF k \in failed_files
                              THEN ResetRecord(file_records[k])
                              ELSE file_records[k]]
        /\ IF retry_count > 0 /\ ~StartRefused(t)
           THEN /\ StartUpdate(t)
                /\ retry_reset' = retry_reset \cup
                       {<<Len(workers) + 1, k>> : k \in failed_files}
           ELSE UNCHANGED <<tasks, workers, task_workers, retry_reset>>
        /\ result' = [op |-> "retry_failed_files", task_id |-> t,
                      value |-> retry_count]
        /\ UNCHANGED <<settings_retry_count, pause_stopped>>
        /\ UNCHANGED <<made_dirs, outside_engine>>


(* ---------------------------- TaskWorker ------------------------------ *)
\* a worker's commit of its changes to its Task row: an UPDATE of a row that
\* delete_task has removed changes no row
CommitTask(w, updated) ==
    IF workers[w].task_id \in DOMAIN tasks THEN updated ELSE tasks

\* the for loop of line 278 has no file left
LoopDone(w) == workers[w].i = Len(workers[w].strm_files)

\* the file the loop is at: strm_files[i]
CurrentFile(w) == workers[w].strm_files[workers[w].i + 1]

\* a per-file failure handled as the outer except of lines 335-339 would:
\* the record is written, the task fails and the worker ends
FailFile_ends_batch(w) ==
    /\ file_records' = Append(file_records,
           NewFileRecord(workers[w].task_id, CurrentFile(w), "failed", "error"))
    /\ workers' = [workers EXCEPT ![w].failed_count = @ + 1,
                                  ![w].running = FALSE,
                                  ![w].pc = "done"]
    /\ tasks' = CommitTask(w, [tasks EXCEPT ![workers[w].task_id].status = "failed",
                              ![workers[w].task_id].error_message = "error"])

\* lines 294-307: the per-file except block; the failed record is committed,
\* the task row is not touched, the loop goes on with the next file
FailFile(w) ==
    /\ file_records' = Append(file_records,
           NewFileRecord(workers[w].task_id, CurrentFile(w), "failed", "error"))
    /\ workers' = [workers EXCEPT ![w].failed_count = @ + 1,
                                  ![w].i = @ + 1,
                                  ![w].pc = "loop"]
    /\ UNCHANGED tasks

\* lines 261-275: execute() starts: running flag, scan, total_files
execute_scan(w, tree) ==
    /\ w \in DOMAIN workers
    /\ workers[w].pc = "created"
    /\ workers' = [workers EXCEPT ![w].running = TRUE,
                                  ![w].strm_files = _scan_strm_files(tree),
                                  ![w].pc = "loop"]
    /\ tasks' = CommitTask(w, [tasks EXCEPT
           ![workers[w].task_id].total_files = Len(_scan_strm_files(tree))])
    /\ result' = NoResult
    /\ UNCHANGED <<file_records, task_workers, settings_retry_count,
                   pause_stopped>>
    /\ UNCHANGED <<made_dirs, retry_reset, outside_engine>>

\* the outer except writing its failure to every task row instead of
\* self.task
execute_fatal_fails_every_task(w) ==
    /\ w \in DOMAIN workers
    /\ workers[w].pc = "created"
    /\ workers' = [workers EXCEPT ![w].running = FALSE, ![w].pc = "done"]
    /\ tasks' = [t \in DOMAIN tasks |->
                    [tasks[t] EXCEPT !.status = "failed",
                                     !.error_message = "error"]]
    /\ result' = NoResult
    /\ UNCHANGED <<file_records, task_workers, settings_retry_count,
                   pause_stopped>>
    /\ UNCHANGED <<made_dirs, retry_reset, outside_engine>>

\* lines 335-350: an exception escapes the try body of execute()
execute_fatal(w) ==
    /\ w \in DOMAIN workers
    /\ workers[w].pc = "created"
    /\ workers' = [workers EXCEPT ![w].running = FALSE, ![w].pc = "done"]
    /\ tasks' = CommitTask(w, [tasks EXCEPT ![workers[w].task_id].status = "failed",
                              ![workers[w].task_id].error_message = "error"])
    /\ result' = NoResult
    /\ UNCHANGED <<file_records, task_workers, settings_retry_count,
                   pause_stopped>>
    /\ UNCHANGED <<made_dirs, retry_reset, outside_engine>>

\* lines 278-284 and 363-386: the loop takes the next file; reading it or
\* the scraper_manager check raises at once, or the scrape is awaited
execute_next_file(w) ==
    /\ w \in DOMAIN workers
    /\ workers[w].pc = "loop"
    /\ workers[w].running
    /\ ~LoopDone(w)
    /\ \/ FailFile(w)
       \/ /\ workers' = [workers EXCEPT ![w].pc = "scraping"]
          /\ UNCHANGED <<tasks, file_records>>
    /\ result' = NoResult
    /\ UNCHANGED <<task_workers, settings_retry_count, pause_stopped>>
    /\ UNCHANGED <<made_dirs, retry_reset, outside_engine>>

\* lines 382-412: scrape_media returned; no data or a failing copy raises,
\* otherwise the file is copied and the completed record added to the session
execute_scraped(w) ==
    /\ w \in DOMAIN workers
    /\ workers[w].pc = "scraping"
    /\ \/ FailFile(w)
       \/ /\ workers' = [workers EXCEPT ![w].pc = "recorded"]
          /\ UNCHANGED <<tasks, file_records>>
    /\ result' = NoResult
    /\ UNCHANGED <<task_workers, settings_retry_count, pause_stopped>>
    /\ UNCHANGED <<made_dirs, retry_reset, outside_engine>>

\* lines 285-292: counters and progress of the file just processed; the
\* commit also inserts the completed record added at line 403
execute_file_done(w) ==
    /\ w \in DOMAIN workers
    /\ workers[w].pc = "recorded"
    /\ workers' = [workers EXCEPT ![w].processed_count = @ + 1,
                                  ![w].i = @ + 1,
                                  ![w].pc = "loop"]
    /\ tasks' = CommitTask(w, [tasks EXCEPT
           ![workers[w].task_id].progress =
               Progress(workers[w].i + 1, Len(workers[w].strm_files)),
           ![workers[w].task_id].processed_files =
               workers[w].processed_count + 1,
           ![workers[w].task_id].failed_files = workers[w].failed_count])
    /\ file_records' = Append(file_records,
           NewFileRecord(workers[w].task_id, CurrentFile(w), "completed", "None"))
    /\ result' = NoResult
    /\ UNCHANGED <<task_workers, settings_retry_count, pause_stopped>>
    /\ UNCHANGED <<made_dirs, retry_reset, outside_engine>>

\* lines 279-281 and 316-331: the loop ends, exhausted or stop flag seen;
\* a stopped worker commits "paused" and ends, a running one assigns the
\* completed status and awaits the completion notice before its commit
execute_loop_exit(w) ==
    /\ w \in DOMAIN workers
    /\ workers[w].pc = "loop"
    /\ ~workers[w].running \/ LoopDone(w)
    /\ IF workers[w].running
       THEN /\ workers' = [workers EXCEPT ![w].pc = "completing"]
            /\ UNCHANGED tasks
       ELSE /\ workers' = [workers EXCEPT ![w].running = FALSE,
                                          ![w].pc = "done"]
            /\ tasks' = CommitTask(w, [tasks EXCEPT ![workers[w].task_id].status = "paused"])
    /\ result' = NoResult
    /\ UNCHANGED <<file_records, task_workers, settings_retry_count,
                   pause_stopped>>
    /\ UNCHANGED <<made_dirs, retry_reset, outside_engine>>

\* lines 331 and 348-350: the commit of status, completed_at and progress
execute_complete(w) ==
    /\ w \in DOMAIN workers
    /\ workers[w].pc = "completing"
    /\ workers' = [workers EXCEPT ![w].running = FALSE, ![w].pc = "done"]
    /\ tasks' = CommitTask(w, [tasks EXCEPT ![workers[w].task_id].status = "completed",
                              ![workers[w].task_id].completed_at = TRUE,
                              ![workers[w].task_id].progress = Progress100])
    /\ result' = NoResult
    /\ UNCHANGED <<file_records, task_workers, settings_retry_count,
                   pause_stopped>>
    /\ UNCHANGED <<made_dirs, retry_reset, outside_engine>>

(* -------------------- scrapers.py: ScraperManager --------------------- *)
\* the keys of scraper_classes, in the order of the dict
ScraperClasses == <<"tmdb", "douban", "bangumi", "imdb", "tvdb", "fmart">>

\* a scraper's entry of config['scrapers']: the 'enabled' key (which may be
\* missing), the 'priority' key, and what its remote source does: first_ok
\* is the attempt at which _scrape_impl first returns data, 0 for never
ScraperConfigs ==
    [1..MaxScrapers ->
        [enabled : {"True", "False", "unset"},
         priority : 0..MaxPriority,
         first_ok : 0..(MaxScrapeRetry + 1)]]

\* config.get('enabled', True) read as always true
ConfigEnabled_always(c) == TRUE

\* config.get('enabled', True)
ConfigEnabled(c) == c.enabled # "False"

\* scraper_class(config): BaseScraper.__init__ under the name of the class
NewScraper(k, c) ==
    [name |-> ScraperClasses[k], enabled |-> ConfigEnabled(c),
     priority |-> c.priority, first_ok |-> c.first_ok]

\* list.sort(key=priority) is stable: x goes behind every element whose
\* priority is not larger
InsertByPriority(sorted, x) ==
    LET n == Cardinality({i \in 1..Len(sorted) :
                            sorted[i].priority <= x.priority})
    IN  SubSeq(sorted, 1, n) \o <<x>> \o SubSeq(sorted, n + 1, Len(sorted))

RECURSIVE SortByPriority(_)
SortByPriority(seq) ==
    IF seq = <<>> THEN <<>>
    ELSE InsertByPriority(SortByPriority(SubSeq(seq, 1, Len(seq) - 1)),
                          seq[Len(seq)])

\* the scrapers constructed for the first k classes, in class order
RECURSIVE ConstructedUpTo(_, _)
ConstructedUpTo(config, k) ==
    IF k = 0 THEN <<>>
    ELSE IF ConfigEnabled(config[k])
         THEN Append(ConstructedUpTo(config, k - 1), NewScraper(k, config[k]))
         ELSE ConstructedUpTo(config, k - 1)

\* the classes that have an entry in config (ScraperConfigs gives one to
\* the first MaxScrapers classes) are constructed and sorted
_init_scrapers(config) == SortByPriority(ConstructedUpTo(config, Len(config)))

\* scraper_configs.get(name, {}) for a name without an entry: the reads of
\* BaseScraper.__init__ and of _init_scrapers then take their defaults,
\* config.get('enabled', True) and config.get('priority', 0)
NoConfigEntry(first_ok) ==
    [enabled |-> "unset", priority |-> 0, first_ok |-> first_ok]

\* the names init_scraper_manager writes an entry for, as positions in
\* ScraperClasses: tmdb, douban, bangumi, imdb, tvdb
EngineConfigured == 1..5

\* TaskManager.init_scraper_manager: the configuration the engine hands to
\* ScraperManager. has_key[k] says whether the setting that enables class k
\* (its API key or cookie) is set; douban is enabled without one; the
\* priorities are 1 to 5 in class order; the sixth class gets no entry
init_scraper_manager(has_key, first_ok) ==
    [k \in 1..Len(ScraperClasses) |->
        IF k \in EngineConfigured
        THEN [enabled |-> IF ScraperClasses[k] = "douban" \/ has_key[k]
                          THEN "True" ELSE "False",
              priority |-> k,
              first_ok |-> first_ok[k]]
        ELSE NoConfigEntry(first_ok[k])]

\* ScraperManager(config); pc is where a scrape_media call stands, invoked
\* the names of the scrapers whose scrape() was awaited, impl_calls the
\* number of _scrape_impl calls (the only code that uses the network)
NewScraperManager(config) ==
    [pc |-> "idle", config |-> config, scrapers |-> _init_scrapers(config),
     idx |-> 0, invoked |-> <<>>, impl_calls |-> 0,
     result |-> [found |-> FALSE, source |-> "None"]]

\* BaseScraper.scrape: what it returns and how often it calls _scrape_impl
scrape(sc) ==
    IF ~sc.enabled
    THEN [found |-> FALSE, calls |-> 0]
    ELSE IF sc.first_ok \in 1..(MaxScrapeRetry + 1)
         THEN [found |-> TRUE, calls |-> sc.first_ok]
         ELSE [found |-> FALSE, calls |-> MaxScrapeRetry + 1]

\* the scrape_media call with every result merged away: the loop goes on
\* after a scraper has returned data
scrape_media_next_no_return ==
    /\ scraper_manager.pc = "iterating"
    /\ scraper_manager.idx <= Len(scraper_manager.scrapers)
    /\ LET sc == scraper_manager.scrapers[scraper_manager.idx]
           r == scrape(sc)
       IN  scraper_manager' =
             [scraper_manager EXCEPT
                !.invoked = Append(@, sc.name),
                !.impl_calls = @ + r.calls,
                !.idx = @ + 1,
                !.result = IF r.found
                           THEN [found |-> TRUE, source |-> sc.name]
                           ELSE @]
    /\ UNCHANGED <<engine_vars, handler, memory_manager, media, base_scraper,
                   file_process, organizer, file_watcher, file_processor,
                   resource_monitor>>

\* scrape_media is called
scrape_media_call ==
    /\ scraper_manager.pc = "idle"
    /\ scraper_manager' = [scraper_manager EXCEPT !.pc = "iterating",
                                                  !.idx = 1]
    /\ UNCHANGED <<engine_vars, handler, memory_manager, media, base_scraper,
                   file_process, organizer, file_watcher, file_processor,
                   resource_monitor>>

\* lines 798-806: one iteration of the loop: the scraper's session is
\* opened, scrape() awaited, and a non-empty result returned at once
scrape_media_next ==
    /\ scraper_manager.pc = "iterating"
    /\ scraper_manager.idx <= Len(scraper_manager.scrapers)
    /\ LET sc == scraper_manager.scrapers[scraper_manager.idx]
           r == scrape(sc)
       IN  scraper_manager' =
             [scraper_manager EXCEPT
                !.invoked = Append(@, sc.name),
                !.impl_calls = @ + r.calls,
                !.idx = IF r.found THEN @ ELSE @ + 1,
                !.pc = IF r.found THEN "returned" ELSE @,
                !.result = IF r.found
                           THEN [found |-> TRUE, source |-> sc.name]
                           ELSE @]
    /\ UNCHANGED <<engine_vars, handler, memory_manager, media, base_scraper,
                   file_process, organizer, file_watcher, file_processor,
                   resource_monitor>>

\* lines 808-809: the loop is exhausted, scrape_media returns None
scrape_media_none ==
    /\ scraper_manager.pc = "iterating"
    /\ scraper_manager.idx > Len(scraper_manager.scrapers)
    /\ scraper_manager' = [scraper_manager EXCEPT !.pc = "returned"]
    /\ UNCHANGED <<engine_vars, handler, memory_manager, media, base_scraper,
                   file_process, organizer, file_watcher, file_processor,
                   resource_monitor>>

(* -------------------- watcher.py: STRMFileHandler --------------------- *)
WatchPaths == 1..MaxWatchPaths

\* the debounce tasks one handler can create: one per event delivered
TimerIds == 1..(MaxEvents * MaxWatchPaths)

\* STRMFileHandler.__init__ with the STRMFileProcessor queue its callback
\* feeds, and the bookkeeping the claims speak of: timers holds every
\* debounce task created so far (its path, the ticks it has left to sleep,
\* and whether it is sleeping, cancelled or fired), debounce_tasks maps a
\* path to its task, emitted counts the callback calls per path,
\* processing_queue holds the paths put on the queue, events the
\* create/modify events delivered, quiet the ticks since the last of them
\* (up to DebounceTicks), in_window whether each event came less than
\* DebounceTicks after the one before, missing whether a timer found its
\* file gone
NewHandler ==
    [pc |-> "watching",
     debounce_tasks |-> <<>>,
     timers |-> <<>>,
     processing_queue |-> <<>>,
     emitted |-> [p \in WatchPaths |-> 0],
     events |-> [p \in WatchPaths |-> 0],
     quiet |-> [p \in WatchPaths |-> 0],
     in_window |-> [p \in WatchPaths |-> TRUE],
     missing |-> [p \in WatchPaths |-> FALSE]]

\* the timer task registered for p has neither run nor been cancelled
TimerPending(p) ==
    /\ p \in DOMAIN handler.debounce_tasks
    /\ handler.timers[handler.debounce_tasks[p]].state = "sleeping"

\* task.cancel(): a task that is still sleeping is cancelled, one that has
\* finished is left as it is
cancel(timers, k) ==
    [timers EXCEPT ![k].state = IF @ = "sleeping" THEN "cancelled" ELSE @]

\* lines 34-35 left out: the task registered for the path is not cancelled
CancelRegistered_skipped(h, p) == h.timers

\* lines 34-35: the task registered for the path, if any, is cancelled
CancelRegistered(h, p) ==
    IF p \in DOMAIN h.debounce_tasks
    THEN cancel(h.timers, h.debounce_tasks[p])
    ELSE h.timers

\* lines 23-38 as called from on_created / on_modified (40-50) for a .strm
\* file.  loop_running tells whether the calling thread runs the event
\* loop.  With it, the earlier timer is cancelled and a new one created and
\* registered (the handler then raises TypeError from its own
\* asyncio.create_task(None), after the timer is set).  On the watchdog
\* observer thread, which is where Observer dispatches, the earlier timer is
\* cancelled and asyncio.create_task raises RuntimeError (no running event
\* loop): no timer is created.
on_modified(p, loop_running) ==
    /\ handler.pc = "watching"
    /\ handler.events[p] < MaxEvents
    /\ handler' =
          [handler EXCEPT
             !.events[p] = @ + 1,
             !.quiet[p] = 0,
             !.in_window[p] = @ /\ (handler.events[p] = 0
                                    \/ handler.quiet[p] < DebounceTicks),
             !.timers =
                 IF loop_running
                 THEN Append(CancelRegistered(handler, p),
                             [path |-> p, remaining |-> DebounceTicks,
                              state |-> "sleeping"])
                 ELSE CancelRegistered(handler, p),
             !.debounce_tasks =
                 IF loop_running
                 THEN DictSet(@, p, Len(handler.timers) + 1)
                 ELSE @]
    /\ UNCHANGED <<engine_vars, scraper_manager, memory_manager, media,
                   base_scraper, file_process, organizer, file_watcher,
                   file_processor, resource_monitor>>

\* one clock tick: every sleeping timer and every quiet period advance; a
\* timer whose sleep is over runs before the clock goes on
Tick ==
    /\ handler.pc = "watching"
    /\ \A k \in DOMAIN handler.timers :
          handler.timers[k].state = "sleeping"
              => handler.timers[k].remaining > 0
    /\ \E p \in WatchPaths :
          handler.events[p] > 0 /\ handler.quiet[p] < DebounceTicks
    /\ handler' =
          [handler EXCEPT
             !.quiet = [p \in WatchPaths |->
                          IF handler.events[p] > 0 /\ @[p] < DebounceTicks
                          THEN @[p] + 1 ELSE @[p]],
             !.timers =
                 [k \in DOMAIN @ |->
                    IF @[k].state = "sleeping"
                    THEN [@[k] EXCEPT !.remaining = @ - 1]
                    ELSE @[k]]]
    /\ UNCHANGED <<engine_vars, scraper_manager, memory_manager, media,
                   base_scraper, file_process, organizer, file_watcher,
                   file_processor, resource_monitor>>

\* STRMFileProcessor.process_strm_file (168-195), the callback: the file is
\* read, an empty one is skipped with a warning, otherwise one item for the
\* path is put on the queue
process_strm_file_put(queue, p, content_empty) ==
    IF content_empty THEN queue ELSE Append(queue, p)

\* lines 25-31: the sleep of timer k is over: the entry of its path is
\* removed and, if the file still exists, the callback awaited
debounced_task(k, exists, content_empty) ==
    /\ handler.pc = "watching"
    /\ k \in DOMAIN handler.timers
    /\ handler.timers[k].state = "sleeping"
    /\ handler.timers[k].remaining = 0
    /\ LET p == handler.timers[k].path IN
        handler' =
          IF p \in DOMAIN handler.debounce_tasks
          THEN [handler EXCEPT
                  !.timers[k].state = "fired",
                  !.debounce_tasks = DictDel(@, p),
                  !.emitted[p] = IF exists THEN @ + 1 ELSE @,
                  !.processing_queue =
                      IF exists
                      THEN process_strm_file_put(@, p, content_empty)
                      ELSE @,
                  !.missing[p] = @ \/ ~exists]
          ELSE [handler EXCEPT !.timers[k].state = "fired"]
    /\ UNCHANGED <<engine_vars, scraper_manager, memory_manager, media,
                   base_scraper, file_process, organizer, file_watcher,
                   file_processor, resource_monitor>>

(* ----------------------- watcher.py: FileWatcher ---------------------- *)
Roots == 1..MaxRoots

\* FileWatcher.__init__ as STRMFileProcessor.__init__ constructs it. dirs
\* are the roots that exist and are directories. handlers holds every
\* STRMFileHandler constructed, with the state of the debounce task of the
\* one marker file below its root; scheduled are the handlers the current
\* Observer dispatches to; watch_handlers maps a root to its handler.
\* removed (the roots whose remove_watch_path returned True and that were
\* not added again) and signals (the roots of the callback calls) are
\* bookkeeping; result is what the last call returned
NewFileWatcher(dirs) ==
    [pc |-> "constructed", dirs |-> dirs,
     observer |-> "None", running |-> FALSE,
     handlers |-> <<>>, scheduled |-> {}, watch_handlers |-> <<>>,
     removed |-> {}, signals |-> <<>>, result |-> "none"]

\* lines 70-97 on watcher record fw: the new record and the return value
AddWatchPath(fw, path) ==
    IF path \notin fw.dirs
    THEN [fw |-> fw, ret |-> "False"]
    ELSE IF fw.observer = "None"
    THEN \* self.observer.schedule raises AttributeError, caught at line 95
         [fw |-> fw, ret |-> "False"]
    ELSE [fw |-> [fw EXCEPT
                    !.handlers = Append(@, [root |-> path, timer |-> "none"]),
                    !.scheduled = @ \cup {Len(fw.handlers) + 1},
                    !.watch_handlers = DictSet(@, path, Len(fw.handlers) + 1),
                    !.removed = @ \ {path}],
          ret |-> "True"]

add_watch_path(path) ==
    /\ file_watcher.pc = "constructed"
    /\ Len(file_watcher.handlers) < MaxHandlers
    /\ file_watcher' = [AddWatchPath(file_watcher, path).fw EXCEPT
                           !.result = AddWatchPath(file_watcher, path).ret]
    /\ UNCHANGED <<engine_vars, scraper_manager, handler, memory_manager,
                   media, base_scraper, file_process, organizer,
                   file_processor, resource_monitor>>

\* the debounce task of a handler is cancelled (task.cancel())
CancelTasks(handlers, hs) ==
    [h \in DOMAIN handlers |->
        IF h \in hs /\ handlers[h].timer = "sleeping"
        THEN [handlers[h] EXCEPT !.timer = "cancelled"]
        ELSE handlers[h]]

\* lines 99-114: the debounce tasks of the root's handler are cancelled and
\* the root leaves watch_handlers; the observer is not touched
remove_watch_path(path) ==
    /\ file_watcher.pc = "constructed"
    /\ IF path \in DOMAIN file_watcher.watch_handlers
       THEN file_watcher' =
              [file_watcher EXCEPT
                 !.handlers =
                     CancelTasks(@, {file_watcher.watch_handlers[path]}),
                 !.watch_handlers = DictDel(@, path),
                 !.removed = @ \cup {path},
                 !.result = "True"]
       ELSE file_watcher' = [file_watcher EXCEPT !.result = "False"]
    /\ UNCHANGED <<engine_vars, scraper_manager, handler, memory_manager,
                   media, base_scraper, file_process, organizer,
                   file_processor, resource_monitor>>

\* lines 116-129 up to the first sleep of the keep-alive loop: a new
\* Observer, which has no watch scheduled, is started
Start(fw) ==
    IF fw.running THEN fw
    ELSE [fw EXCEPT !.observer = "started", !.running = TRUE,
                    !.scheduled = {}]

start ==
    /\ file_watcher.pc = "constructed"
    /\ ~file_watcher.running
    /\ file_watcher' = [Start(file_watcher) EXCEPT !.result = "none"]
    /\ UNCHANGED <<engine_vars, scraper_manager, handler, memory_manager,
                   media, base_scraper, file_process, organizer,
                   file_processor, resource_monitor>>

\* lines 136-155: the tasks of the registered handlers are cancelled, the
\* observer is stopped and dropped; watch_handlers keeps its entries
stop_watching ==
    /\ file_watcher.pc = "constructed"
    /\ file_watcher.running
    /\ file_watcher' =
          [file_watcher EXCEPT
             !.running = FALSE,
             !.handlers = CancelTasks(@,
                 {file_watcher.watch_handlers[r] :
                     r \in DOMAIN file_watcher.watch_handlers}),
             !.observer = "None",
             !.scheduled = {},
             !.result = "none"]
    /\ UNCHANGED <<engine_vars, scraper_manager, handler, memory_manager,
                   media, base_scraper, file_process, organizer,
                   file_processor, resource_monitor>>

\* the add_watch_path calls of lines 200-201, for the paths of the list in
\* order (the list holds the roots 1..n)
RECURSIVE AddWatchPaths(_, _)
AddWatchPaths(fw, n) ==
    IF n = 0 THEN fw ELSE AddWatchPath(AddWatchPaths(fw, n - 1), n).fw

\* lines 197-204: STRMFileProcessor.start_watching(watch_paths), up to the
\* first sleep inside watcher.start()
start_watching(n) ==
    /\ file_watcher.pc = "constructed"
    /\ Len(file_watcher.handlers) + n <= MaxHandlers
    /\ file_watcher' = [Start(AddWatchPaths(file_watcher, n)) EXCEPT
                           !.result = "none"]
    /\ UNCHANGED <<engine_vars, scraper_manager, handler, memory_manager,
                   media, base_scraper, file_process, organizer,
                   file_processor, resource_monitor>>

\* the running Observer delivers a create/modify event of the marker file
\* below the root of a scheduled handler: _debounce_callback cancels the
\* registered task and, if the delivering thread runs the event loop,
\* registers a new one (see on_modified)
dispatch(h, loop_running) ==
    /\ file_watcher.pc = "constructed"
    /\ file_watcher.observer = "started"
    /\ h \in file_watcher.scheduled
    /\ file_watcher' =
          [file_watcher EXCEPT
             !.handlers[h].timer =
                 IF loop_running THEN "sleeping"
                 ELSE IF @ = "sleeping" THEN "cancelled" ELSE @,
             !.result = "none"]
    /\ UNCHANGED <<engine_vars, scraper_manager, handler, memory_manager,
                   media, base_scraper, file_process, organizer,
                   file_processor, resource_monitor>>

\* the sleep of a handler's debounce task is over (lines 25-31): if the
\* file exists the callback is awaited
timer_fires(h, exists) ==
    /\ file_watcher.pc = "constructed"
    /\ h \in DOMAIN file_watcher.handlers
    /\ file_watcher.handlers[h].timer = "sleeping"
    /\ Len(file_watcher.signals) < MaxSignals
    /\ file_watcher' =
          [file_watcher EXCEPT
             !.handlers[h].timer = "fired",
             !.signals = IF exists
                         THEN Append(@, file_watcher.handlers[h].root)
                         ELSE @,
             !.result = "none"]
    /\ UNCHANGED <<engine_vars, scraper_manager, handler, memory_manager,
                   media, base_scraper, file_process, organizer,
                   file_processor, resource_monitor>>

(* --------------------- watcher.py: STRMFileProcessor ------------------ *)
\* STRMFileProcessor.__init__ (163-166): an empty unbounded asyncio.Queue and
\* no consumer.  queue holds the items put and not yet taken, each named by
\* its file_path (every item process_strm_file puts carries 'type':
\* 'strm_file' and 'file_path', so the subscripts of lines 220-222 do not
\* raise); unfinished is the queue's count of items not yet acknowledged by
\* task_done(); pc is where the process_queue coroutine stands.  dequeued and
\* acks are history: the items the consumer took and the number of
\* task_done() calls it made for each.
NewFileProcessor ==
    [pc |-> "not_started", processing |-> FALSE, queue |-> <<>>,
     unfinished |-> 0, dequeued |-> <<>>, acks |-> <<>>]

\* process_strm_file (168-195) awaited for path p
put(p, content_empty) ==
    /\ file_processor.pc # "none"
    /\ Len(file_processor.queue) + Len(file_processor.dequeued) < MaxItems
    /\ LET queue == process_strm_file_put(file_processor.queue, p,
                                          content_empty) IN
        file_processor' =
            [file_processor EXCEPT
                !.queue = queue,
                !.unfinished = @ + (Len(queue) - Len(file_processor.queue))]
    /\ UNCHANGED <<engine_vars, scraper_manager, handler, memory_manager,
                   media, base_scraper, file_process, organizer, file_watcher,
                   resource_monitor>>

\* process_queue, lines 210-217, up to its first suspension: the flag is
\* raised and the coroutine waits in wait_for(get(), 1.0)
process_queue ==
    /\ file_processor.pc \in {"not_started", "returned"}
    /\ file_processor' = [file_processor EXCEPT !.processing = TRUE,
                                                !.pc = "wait_for"]
    /\ UNCHANGED <<engine_vars, scraper_manager, handler, memory_manager,
                   media, base_scraper, file_process, organizer, file_watcher,
                   resource_monitor>>

\* a loop test that never looks at the flag
LoopContinues_forever(fp) == TRUE

\* 'while self.processing' of line 214
LoopContinues(fp) == fp.processing

\* the wait_for of line 217 completes.  On an empty queue it is the
\* TimeoutError after one second and 'continue' (226-227); otherwise get()
\* hands over the oldest item, the body logs it and calls task_done() once
\* (224).  Either way the next thing the coroutine does is the test of line
\* 214.
poll ==
    /\ file_processor.pc = "wait_for"
    /\ LET fp == file_processor
           after == IF fp.queue = <<>>
                    THEN fp
                    ELSE [fp EXCEPT !.queue = Tail(@),
                                    !.dequeued = Append(@, Head(fp.queue)),
                                    !.acks = Append(@, 1),
                                    !.unfinished = @ - 1]
       IN file_processor' =
            [after EXCEPT !.pc = IF LoopContinues(after) THEN "wait_for"
                                 ELSE "returned"]
    /\ UNCHANGED <<engine_vars, scraper_manager, handler, memory_manager,
                   media, base_scraper, file_process, organizer, file_watcher,
                   resource_monitor>>

\* stop_processing, lines 232-234
stop_processing ==
    /\ file_processor.pc # "none"
    /\ file_processor' = [file_processor EXCEPT !.processing = FALSE]
    /\ UNCHANGED <<engine_vars, scraper_manager, handler, memory_manager,
                   media, base_scraper, file_process, organizer, file_watcher,
                   resource_monitor>>

(* ------------------- proxy_memory.py: MemoryManager ------------------- *)
\* the thresholds 0.8 and 0.95 of lines 343-344, in hundredths
warning_threshold == 80
critical_threshold == 95

\* MemoryManager(max_memory_mb) before its first check; rss_mb is what
\* psutil will report as memory_info.rss, in MiB
\* memory_stats is {} until the first check: usage_percentage and
\* system_high then read as the defaults of the .get calls of lines 430,
\* 440 and 450.  gc and recommendations hold what the last should_trigger_gc
\* and get_recommendations call since the last check returned.
NewMemoryManager(max_memory_mb, rss_mb) ==
    [pc |-> "constructed", max_memory_mb |-> max_memory_mb,
     rss_mb |-> rss_mb, level |-> "None", usage_percentage |-> 0,
     system_high |-> FALSE, gc |-> "none", recommendations |-> <<"none">>]

\* the comparisons of lines 401-411 with the warning threshold exclusive
MemoryLevel_exclusive(current_usage_mb, max_memory_mb) ==
    IF current_usage_mb * 100 >= critical_threshold * max_memory_mb
    THEN "critical"
    ELSE IF current_usage_mb * 100 > warning_threshold * max_memory_mb
         THEN "warning"
         ELSE "normal"

\* lines 383-411: usage_percentage = current_usage_mb / max_memory_mb
\* compared with the thresholds; the quotient is kept exact by comparing
\* the cross products (the float quotient and the float literals 0.8 and
\* 0.95 order the same way for every size a process can have)
MemoryLevel(current_usage_mb, max_memory_mb) ==
    IF current_usage_mb * 100 >= critical_threshold * max_memory_mb
    THEN "critical"
    ELSE IF current_usage_mb * 100 >= warning_threshold * max_memory_mb
         THEN "warning"
         ELSE "normal"

\* round(x, 2) of a quotient num / den >= 0, in hundredths
Round2(num, den) == (2 * 100 * num + den) \div (2 * den)

\* memory_stats['usage_percentage'] of line 390: the quotient of line 384
\* times 100, rounded to two places; kept in hundredths of a percent
UsagePercentageStat(current_usage_mb, max_memory_mb) ==
    Round2(current_usage_mb * 100, max_memory_mb)

\* system_high: whether memory_stats['system_percentage'] (385, 391), the
\* share of the machine's memory the process holds, is above 80
check_memory_usage(system_high) ==
    /\ memory_manager.pc = "constructed"
    /\ memory_manager' =
          [memory_manager EXCEPT
             !.pc = "checked",
             !.usage_percentage =
                 UsagePercentageStat(memory_manager.rss_mb,
                                     memory_manager.max_memory_mb),
             !.system_high = system_high,
             !.gc = "none",
             !.recommendations = <<"none">>,
             !.level = MemoryLevel(memory_manager.rss_mb,
                                   memory_manager.max_memory_mb)]
    /\ UNCHANGED <<engine_vars, scraper_manager, handler, media, base_scraper,
                   file_process, organizer, file_watcher, file_processor,
                   resource_monitor>>

\* lines 425-431.  self.warning_threshold is the number 0.8 and the stored
\* usage_percentage a number of percent: in hundredths, 80 against the
\* stored value.
ShouldTriggerGc(mm) ==
    IF mm.pc # "checked"
    THEN FALSE
    ELSE mm.usage_percentage >= warning_threshold

should_trigger_gc ==
    /\ memory_manager.pc # "none"
    /\ memory_manager' =
          [memory_manager EXCEPT
             !.gc = IF ShouldTriggerGc(memory_manager) THEN "True"
                    ELSE "False"]
    /\ UNCHANGED <<engine_vars, scraper_manager, handler, media, base_scraper,
                   file_process, organizer, file_watcher, file_processor,
                   resource_monitor>>

\* the two pieces of advice of lines 443-444, of 447-448, and that of 451
CriticalAdvice == <<"release memory now", "restart or clear caches">>
WarningAdvice == <<"clear caches", "adjust limit or optimise">>
SystemAdvice == <<"check other processes">>

\* lines 433-453, the thresholds 0.95 and 0.8 against the stored percent
Recommendations(mm) ==
    IF mm.pc # "checked"
    THEN <<>>
    ELSE (IF mm.usage_percentage >= critical_threshold
          THEN CriticalAdvice
          ELSE IF mm.usage_percentage >= warning_threshold
               THEN WarningAdvice
               ELSE <<>>)
         \o (IF mm.system_high THEN SystemAdvice ELSE <<>>)

get_recommendations ==
    /\ memory_manager.pc # "none"
    /\ memory_manager' =
          [memory_manager EXCEPT
             !.recommendations = Recommendations(memory_manager)]
    /\ UNCHANGED <<engine_vars, scraper_manager, handler, media, base_scraper,
                   file_process, organizer, file_watcher, file_processor,
                   resource_monitor>>

(* ------------------ proxy_memory.py: ResourceMonitor ------------------ *)
\* self.check_interval of line 476 and timedelta(hours=1) of line 518, in
\* seconds
check_interval == 30
retest_interval == 3600

\* an alert callback: whether it is a coroutine function (539) and whether
\* its call ends in an exception
Callbacks == [is_async : BOOLEAN, raises : BOOLEAN]

\* no ProxyManager (the default of line 471), and ProxyManager.__init__
\* (85-89) over a config that is enabled or not; last_test = -1 stands for
\* None
NoProxyManager ==
    [present |-> FALSE, enabled |-> FALSE, last_test |-> -1,
     is_working |-> FALSE]
NewProxyManager(enabled) ==
    [present |-> TRUE, enabled |-> enabled, last_test |-> -1,
     is_working |-> FALSE]

\* ResourceMonitor.__init__ (471-477) over a MemoryManager of limit
\* max_memory_mb.  now is datetime.now(), in seconds; pc is where the
\* monitor task stands; level is the level of the sample being handled and
\* next_callback the position of the loop of line 537.  invoked is history:
\* the callbacks called for the sample being handled, each with the
\* alert_info it was given; last_issued is the time and outcome of the last
\* test_proxy call the loop made (at = -1: none yet).
NewResourceMonitor(max_memory_mb, proxy_manager) ==
    [pc |-> "constructed", monitoring |-> FALSE, alert_callbacks |-> <<>>,
     max_memory_mb |-> max_memory_mb, proxy_manager |-> proxy_manager,
     now |-> 0, level |-> "None", next_callback |-> 0, invoked |-> <<>>,
     last_issued |-> [at |-> -1, success |-> FALSE]]

\* the resident set sizes sampled, in MiB: nothing, the sizes on either side
\* of the two thresholds of a limit of 100 MiB, and the largest
SampledRss == {0, warning_threshold - 1, warning_threshold,
               critical_threshold - 1, critical_threshold, MaxRssMb}

\* add_alert_callback, lines 479-481
add_alert_callback(callback) ==
    /\ resource_monitor.pc # "none"
    /\ Len(resource_monitor.alert_callbacks) < MaxCallbacks
    /\ resource_monitor' =
          [resource_monitor EXCEPT !.alert_callbacks = Append(@, callback)]
    /\ UNCHANGED <<engine_vars, scraper_manager, handler, memory_manager,
                   media, base_scraper, file_process, organizer,
                   file_watcher, file_processor>>

\* start_monitoring, lines 483-490: the task is created and has not run yet
start_monitoring ==
    /\ resource_monitor.pc # "none"
    /\ resource_monitor' =
          IF resource_monitor.monitoring
          THEN resource_monitor
          ELSE [resource_monitor EXCEPT !.monitoring = TRUE,
                                        !.pc = "scheduled"]
    /\ UNCHANGED <<engine_vars, scraper_manager, handler, memory_manager,
                   media, base_scraper, file_process, organizer,
                   file_watcher, file_processor>>

\* lines 505-512 when the task runs for the first time or its sleep of
\* check_interval seconds is over: the memory is sampled (rss_mb is what
\* psutil reports; with check_ok false psutil raises and the sample has no
\* level, 418-423) and the alerts are begun for a warning or critical level
sample(rss_mb, check_ok) ==
    /\ resource_monitor.pc \in {"scheduled", "sleep"}
    /\ resource_monitor.pc = "sleep" =>
            resource_monitor.now + check_interval <= MaxClock
    /\ LET rm == resource_monitor
           level == IF check_ok THEN MemoryLevel(rss_mb, rm.max_memory_mb)
                    ELSE "None"
           alerts == /\ level \in {"warning", "critical"}
                     /\ rm.alert_callbacks # <<>>
       IN resource_monitor' =
            IF ~rm.monitoring
            THEN [rm EXCEPT !.pc = "returned"]
            ELSE [rm EXCEPT
                    !.now = IF rm.pc = "sleep" THEN @ + check_interval ELSE @,
                    !.level = level,
                    !.invoked = <<>>,
                    !.next_callback = IF alerts THEN 1 ELSE 0,
                    !.pc = IF alerts THEN "alerts" ELSE "proxy"]
    /\ UNCHANGED <<engine_vars, scraper_manager, handler, memory_manager,
                   media, base_scraper, file_process, organizer,
                   file_watcher, file_processor>>

\* alert_info of lines 531-535 for the sample being handled
AlertInfo(rm) == [type |-> "memory", data |-> rm.level, timestamp |-> rm.now]

\* a loop of line 537 without the try of lines 538-544: the exception of a
\* callback leaves _trigger_alerts and is caught at line 525
AfterCallback_unguarded(rm, k) ==
    IF rm.alert_callbacks[k].raises
    THEN [rm EXCEPT !.next_callback = 0, !.pc = "sleep"]
    ELSE IF k < Len(rm.alert_callbacks)
         THEN [rm EXCEPT !.next_callback = k + 1]
         ELSE [rm EXCEPT !.next_callback = 0, !.pc = "proxy"]

\* lines 537-544 after callback k was called: an exception is logged, and
\* the loop goes to the next callback or, after the last, on to line 515
AfterCallback(rm, k) ==
    IF k < Len(rm.alert_callbacks)
    THEN [rm EXCEPT !.next_callback = k + 1]
    ELSE [rm EXCEPT !.next_callback = 0, !.pc = "proxy"]

\* lines 537-542 for one callback: it is called (and awaited if it is a
\* coroutine function) with alert_info
invoke_callback ==
    /\ resource_monitor.pc = "alerts"
    /\ LET k == resource_monitor.next_callback
           called == [resource_monitor EXCEPT
                        !.invoked = Append(@, [callback |-> k,
                                       info |-> AlertInfo(resource_monitor)])]
       IN resource_monitor' = AfterCallback(called, k)
    /\ UNCHANGED <<engine_vars, scraper_manager, handler, memory_manager,
                   media, base_scraper, file_process, organizer,
                   file_watcher, file_processor>>

\* the condition of lines 515-518
TestDue(rm) ==
    /\ rm.proxy_manager.present
    /\ rm.proxy_manager.enabled
    /\ \/ rm.proxy_manager.last_test = -1
       \/ rm.now - rm.proxy_manager.last_test > retest_interval

\* ProxyManager.test_proxy (184-323) on an enabled config: is_working is
\* set either way, last_test only by a test that succeeds (229-230,
\* 270-271)
test_proxy(pm, now, success) ==
    IF success
    THEN [pm EXCEPT !.is_working = TRUE, !.last_test = now]
    ELSE [pm EXCEPT !.is_working = FALSE]

\* lines 514-521: the proxy is tested if it is due, and the task goes to
\* sleep
proxy_check(success) ==
    /\ resource_monitor.pc = "proxy"
    /\ LET rm == resource_monitor IN
        resource_monitor' =
          IF TestDue(rm)
          THEN [rm EXCEPT
                  !.proxy_manager = test_proxy(@, rm.now, success),
                  !.last_issued = [at |-> rm.now, success |-> success],
                  !.pc = "sleep"]
          ELSE [rm EXCEPT !.pc = "sleep"]
    /\ UNCHANGED <<engine_vars, scraper_manager, handler, memory_manager,
                   media, base_scraper, file_process, organizer,
                   file_watcher, file_processor>>

\* stop_monitoring, lines 492-501, called while the task is suspended: the
\* flag is lowered and the task cancelled.  A task that has not run yet or
\* sleeps ends there (523-524); one that awaits an asynchronous callback had
\* called it, and the CancelledError leaves _trigger_alerts and ends the
\* task.
stop_monitoring ==
    /\ \/ resource_monitor.pc \in {"constructed", "returned", "scheduled",
                                   "sleep"}
       \/ /\ resource_monitor.pc = "alerts"
          /\ resource_monitor.alert_callbacks[
                 resource_monitor.next_callback].is_async
    /\ LET rm == resource_monitor IN
        resource_monitor' =
          IF rm.pc \in {"constructed", "returned"}
          THEN [rm EXCEPT !.monitoring = FALSE]
          ELSE IF rm.pc = "alerts"
               THEN [rm EXCEPT
                       !.monitoring = FALSE,
                       !.invoked = Append(@, [callback |-> rm.next_callback,
                                              info |-> AlertInfo(rm)]),
                       !.next_callback = 0,
                       !.pc = "returned"]
               ELSE [rm EXCEPT !.monitoring = FALSE, !.pc = "returned"]
    /\ UNCHANGED <<engine_vars, scraper_manager, handler, memory_manager,
                   media, base_scraper, file_process, organizer,
                   file_watcher, file_processor>>

(* ------------- task_manager.py: TaskWorker._extract_media_info ------- *)
\* file names are sequences of characters
Digits == {"0", "1", "2", "3", "4", "5", "6", "7", "8", "9"}
IsSpace(c) == c = " "

Max(S) == CHOOSE x \in S : \A y \in S : x >= y

\* the names handed to the parser: a title word, a separator, a tail, and
\* the extension the scan selects
TitleWords == {<<"A">>, <<"A", "l", "p", "h", "a">>, <<"B", "e", "t", "a">>,
               <<"G", "a", "m", "m", "a">>}
Separators == {<<>>, <<" ">>, <<".">>}
Tails == {<<>>, <<"(", "2", "0", "2", "0", ")">>, <<"2", "0", "2", "0">>,
          <<"S", "0", "1", "E", "0", "2">>, <<"1", "x", "0", "2">>,
          <<"(", "2", "0", ")">>, <<"2", "0", "2", "0", "1">>}
Extension == <<".", "s", "t", "r", "m">>
FileNames ==
    {w \o sep \o tail \o Extension :
        w \in TitleWords, sep \in Separators, tail \in Tails}

\* os.path.splitext(file_name)[0]: the name up to its last dot, a leading
\* dot not counting
splitext(file_name) ==
    LET dots == {i \in 2..Len(file_name) : file_name[i] = "."}
    IN  IF dots = {} THEN file_name
        ELSE SubSeq(file_name, 1, Max(dots) - 1)

\* the end of the run of whitespace that starts behind position k
SpacesEnd(str, k) ==
    Max({j \in k..Len(str) : \A i \in (k + 1)..j : IsSpace(str[i])})

\* \d{4} at position i
YearAt(str, i) ==
    /\ i + 3 <= Len(str)
    /\ \A d \in 0..3 : str[i + d] \in Digits

\* ^(?P<title>.+?)\s*\((?P<year>\d{4})\) : the title lengths that match
TitleParenYear(str) ==
    {k \in 1..Len(str) :
        LET j == SpacesEnd(str, k)
        IN  /\ j + 6 <= Len(str)
            /\ str[j + 1] = "("
            /\ YearAt(str, j + 2)
            /\ str[j + 6] = ")"}

\* ^(?P<title>.+?)\s*(?P<year>\d{4}) : the title lengths that match
TitleYear(str) ==
    {k \in 1..Len(str) : YearAt(str, SpacesEnd(str, k) + 1)}

\* lines 414-437: the three patterns in order; the lazy title takes the
\* shortest length that matches; the result is match.groupdict() with
\* 'type' set to 'movie'
_extract_media_info(file_name) ==
    LET name_without_ext == splitext(file_name)
        k1 == TitleParenYear(name_without_ext)
        k2 == TitleYear(name_without_ext)
    IN  IF k1 # {}
        THEN [title |-> SubSeq(name_without_ext, 1, Min(k1)),
              year |-> SubSeq(name_without_ext,
                              SpacesEnd(name_without_ext, Min(k1)) + 2,
                              SpacesEnd(name_without_ext, Min(k1)) + 5),
              type |-> "movie"]
        ELSE IF k2 # {}
             THEN [title |-> SubSeq(name_without_ext, 1, Min(k2)),
                   year |-> SubSeq(name_without_ext,
                                   SpacesEnd(name_without_ext, Min(k2)) + 1,
                                   SpacesEnd(name_without_ext, Min(k2)) + 4),
                   type |-> "movie"]
             ELSE [title |-> name_without_ext, type |-> "movie"]

\* lines 374-376: the worker extracts the media info of the file it is at
extract_file_name ==
    /\ media.pc = "named"
    /\ media' = [media EXCEPT !.pc = "extracted",
                              !.info = _extract_media_info(media.file_name)]
    /\ UNCHANGED <<engine_vars, scraper_manager, handler, memory_manager,
                   base_scraper, file_process, organizer, file_watcher,
                   file_processor, resource_monitor>>

(* ------------- task_manager.py: TaskWorker._process_strm_file -------- *)
\* the parameters of scrapers.ScraperManager.scrape_media besides self
\* (media_info), the class task_manager.py imports at line 11
scrape_media_params == 1
\* the positional arguments of the call of lines 382-386: title, year, type
scrape_media_args == 3

\* one iteration of the worker's loop on a marker file. content_empty: the
\* file holds nothing but whitespace; manager_set: whether
\* init_scraper_manager has been called (TaskManager.__init__ leaves
\* scraper_manager None); resolves: some enabled scraper of the chain has
\* data for the title; copy_ok: makedirs and shutil.copy2 succeed
NewFileProcess(file_name, content_empty, manager_set, resolves, copy_ok) ==
    [pc |-> "called", file_name |-> file_name,
     content_empty |-> content_empty,
     scraper_manager_set |-> manager_set,
     resolves |-> resolves, copy_ok |-> copy_ok,
     processed_count |-> 0, failed_count |-> 0, records |-> <<>>]

\* lines 363-412: what the call does: it raises, or returns after adding
\* the completed record. A call whose positional arguments do not fit the
\* parameters of the callee raises TypeError before the callee runs
_process_strm_file(fp) ==
    IF fp.content_empty
    THEN [raised |-> "ValueError: file is empty"]
    ELSE IF ~fp.scraper_manager_set
    THEN [raised |-> "ValueError: scraper manager not initialised"]
    ELSE IF scrape_media_args # scrape_media_params
    THEN [raised |-> "TypeError: scrape_media() positional arguments"]
    ELSE IF ~fp.resolves
    THEN [raised |-> "ValueError: nothing scraped"]
    ELSE IF ~fp.copy_ok
    THEN [raised |-> "OSError"]
    ELSE [raised |-> "None"]

\* lines 283-307: the body of the loop on one file: the call, then the
\* counters and the completed record, or the except block with its failed
\* record
process_strm_file ==
    /\ file_process.pc = "called"
    /\ LET r == _process_strm_file(file_process) IN
        IF r.raised = "None"
        THEN file_process' =
               [file_process EXCEPT
                  !.pc = "done",
                  !.processed_count = @ + 1,
                  !.records = Append(@,
                      [file_name |-> file_process.file_name,
                       status |-> "completed",
                       scraped_data |->
                           _extract_media_info(file_process.file_name).title,
                       error_message |-> "None"])]
        ELSE file_process' =
               [file_process EXCEPT
                  !.pc = "done",
                  !.failed_count = @ + 1,
                  !.records = Append(@,
                      [file_name |-> file_process.file_name,
                       status |-> "failed",
                       scraped_data |-> "None",
                       error_message |-> r.raised])]
    /\ UNCHANGED <<engine_vars, scraper_manager, handler, memory_manager,
                   media, base_scraper, organizer, file_watcher,
                   file_processor, resource_monitor>>

(* --------------- task_manager.py: TaskWorker._organize_file ----------- *)
\* the marker files of a source tree as _scan_strm_files lists them: paths
\* <<directory below the source root, base name>>, each path once
SourceDirs == {"a", "b"}
BaseNames == {"x.strm", "y.strm"}
SourceFiles == SourceDirs \X BaseNames

\* what a scraper returned for a file, as far as _organize_file reads it
ScrapedData ==
    [title : {"T1", "T2"}, year : {"2001"}, type : {"movie", "tv", "ova"},
     subcategory : {"Other"}]

OrganizeStrategies == {"category", "type", "none"}

\* lines 501-508
_get_category(media_type) ==
    CASE media_type = "movie" -> "Movies"
      [] media_type = "tv" -> "TV Shows"
      [] media_type = "anime" -> "Anime"
      [] OTHER -> "Others"

\* lines 480-499: the value found for the genres of the scraped data in
\* settings.subcategory_map, or the default; never empty
_get_subcategory(scraped_data, media_type) == scraped_data.subcategory

\* lines 441-473: the path of the copy, as the sequence of its components
\* below task.destination_path
DestFile(strategy, enable_subcategory, source_file, scraped_data) ==
    IF strategy = "none"
    THEN <<source_file[2]>>
    ELSE LET media_type == scraped_data.type
             base_dir == IF strategy = "category"
                         THEN <<_get_category(media_type)>>
                         ELSE <<media_type>>
             dest_dir == IF enable_subcategory
                         THEN Append(base_dir,
                                  _get_subcategory(scraped_data, media_type))
                         ELSE base_dir
         IN  dest_dir \o <<<<scraped_data.title, scraped_data.year>>,
                            source_file[2]>>

\* one task: its strategy, settings.enable_subcategory, the files of its
\* scan with what was scraped for each; copies maps each destination path
\* written so far to the source file whose content it holds, organized is
\* the destination returned for each file done
NewOrganizer(strategy, enable_subcategory, files, scraped) ==
    [pc |-> "organizing", strategy |-> strategy,
     enable_subcategory |-> enable_subcategory,
     files |-> files, scraped |-> scraped,
     copies |-> <<>>, organized |-> <<>>]

\* _organize_file on the next file: makedirs(exist_ok=True) and
\* shutil.copy2, which replaces an existing destination file
_organize_file ==
    /\ organizer.pc = "organizing"
    /\ Len(organizer.organized) < Len(organizer.files)
    /\ LET i == Len(organizer.organized) + 1
           dest_file == DestFile(organizer.strategy,
                                 organizer.enable_subcategory,
                                 organizer.files[i], organizer.scraped[i])
       IN  organizer' =
             [organizer EXCEPT
                !.copies = [d \in DOMAIN organizer.copies \cup {dest_file} |->
                              IF d = dest_file THEN organizer.files[i]
                              ELSE organizer.copies[d]],
                !.organized = Append(@, dest_file)]
    /\ UNCHANGED <<engine_vars, scraper_manager, handler, memory_manager,
                   media, base_scraper, file_process, file_watcher,
                   file_processor, resource_monitor>>

\* the loop of execute() has no file left
organize_done ==
    /\ organizer.pc = "organizing"
    /\ Len(organizer.organized) = Len(organizer.files)
    /\ organizer' = [organizer EXCEPT !.pc = "done"]
    /\ UNCHANGED <<engine_vars, scraper_manager, handler, memory_manager,
                   media, base_scraper, file_process, file_watcher,
                   file_processor, resource_monitor>>

(* ---------------------- scrapers.py: BaseScraper ---------------------- *)
\* what the metadata source does with one request of a scraper: it answers
\* with a match, with an empty result list, with an HTTP error status, or
\* not at all within the session's timeout
Responses == {"found", "no_results", "http_401", "http_500", "timeout"}

\* TMDBScraper._scrape_impl on one answer: session.get raises on a timeout,
\* a status other than 200 and an empty result list return None, a match
\* returns the scraped data
_scrape_impl(response) ==
    CASE response = "timeout" -> "raises"
      [] response \in {"http_401", "http_500", "no_results"} -> "None"
      [] response = "found" -> "data"

\* the answers the source gives to the successive requests of one scrape
\* call (one more than the longest loop needs)
ResponseSeqs == [1..(MaxRetryCount + 2) -> Responses]

\* BaseScraper.__init__ and the state of one scrape(media_info) call;
\* attempt is the loop variable, log the _scrape_impl calls and the sleeps
\* in the order in which they were made
NewBaseScraper(enabled, retry_count, responses) ==
    [pc |-> "created", enabled |-> enabled, retry_count |-> retry_count,
     responses |-> responses, attempt |-> 0, log |-> <<>>,
     result |-> "unset"]

\* range(self.retry_count + 2)
InRange_one_more(sc, attempt) == attempt < sc.retry_count + 2

\* line 65: attempt is in range(self.retry_count + 1)
InRange(sc, attempt) == attempt < sc.retry_count + 1

\* lines 62-65: the enabled check; the loop is entered with attempt 0
scrape_call ==
    /\ base_scraper.pc = "created"
    /\ IF ~base_scraper.enabled
       THEN base_scraper' = [base_scraper EXCEPT !.pc = "returned",
                                                 !.result = "None"]
       ELSE base_scraper' = [base_scraper EXCEPT !.pc = "attempting"]
    /\ UNCHANGED <<engine_vars, scraper_manager, handler, memory_manager,
                   media, file_process, organizer, file_watcher,
                   file_processor, resource_monitor>>

\* the loop goes to its next iteration, or is exhausted and line 77 returns
NextIteration(sc) ==
    IF InRange(sc, sc.attempt + 1)
    THEN [sc EXCEPT !.attempt = @ + 1, !.pc = "attempting"]
    ELSE [sc EXCEPT !.pc = "returned", !.result = "None"]

\* lines 66-74: one iteration up to its end or to the sleep: data is
\* returned at once, None falls through to the next iteration, an exception
\* is logged and, unless this was the last attempt, followed by the sleep
scrape_attempt ==
    /\ base_scraper.pc = "attempting"
    /\ LET attempt == base_scraper.attempt
           response == base_scraper.responses[attempt + 1]
           called == [base_scraper EXCEPT !.log = Append(@,
                         [event |-> "attempt", attempt |-> attempt,
                          response |-> response, seconds |-> 0])]
       IN  CASE _scrape_impl(response) = "data" ->
                   base_scraper' = [called EXCEPT !.pc = "returned",
                                                  !.result = "data"]
             [] _scrape_impl(response) = "None" ->
                   base_scraper' = NextIteration(called)
             [] _scrape_impl(response) = "raises" ->
                   IF attempt < base_scraper.retry_count
                   THEN base_scraper' = [called EXCEPT !.pc = "sleeping"]
                   ELSE base_scraper' = NextIteration(called)
    /\ UNCHANGED <<engine_vars, scraper_manager, handler, memory_manager,
                   media, file_process, organizer, file_watcher,
                   file_processor, resource_monitor>>

\* line 74: await asyncio.sleep(2 ** attempt) has ended
scrape_backoff ==
    /\ base_scraper.pc = "sleeping"
    /\ base_scraper' = NextIteration(
           [base_scraper EXCEPT !.log = Append(@,
               [event |-> "sleep", attempt |-> base_scraper.attempt,
                response |-> "none",
                seconds |-> 2 ^ base_scraper.attempt])])
    /\ UNCHANGED <<engine_vars, scraper_manager, handler, memory_manager,
                   media, file_process, organizer, file_watcher,
                   file_processor, resource_monitor>>

(* --------------------------- specifications --------------------------- *)
NextFor(n_tasks, n_paths) ==
    \/ \E source_exists \in BOOLEAN : create_task(n_tasks, source_exists)
    \/ \E t \in 1..n_tasks : start_task(t)
    \/ \E t \in 1..n_tasks : pause_task(t)
    \/ \E t \in 1..n_tasks : cancel_task(t)
    \/ \E t \in 1..n_tasks : retry_failed_files(t)
    \/ \E w \in WorkerIds, tree \in SUBSET (1..n_paths) :
            execute_scan(w, tree)
    \/ \E w \in WorkerIds : execute_fatal(w)
    \/ \E w \in WorkerIds : execute_next_file(w)
    \/ \E w \in WorkerIds : execute_scraped(w)
    \/ \E w \in WorkerIds : execute_file_done(w)
    \/ \E w \in WorkerIds : execute_loop_exit(w)
    \/ \E w \in WorkerIds : execute_complete(w)

\* one task over a tree of up to MaxPaths marker files
Next == NextFor(MaxTasks, MaxPaths)
Spec == Init /\ [][Next]_vars

\* one more task, each over a tree of one marker file less
NextTasks == NextFor(MaxTasks + 1, MaxPaths - 1)
SpecTasks == Init /\ [][NextTasks]_vars

\* the engine with task deletion, one task over a tree of one marker file
\* less
NextDelete ==
    \/ NextFor(MaxTasks, MaxPaths - 1)
    \/ \E t \in 1..MaxTasks : delete_task(t)

SpecDelete == Init /\ [][NextDelete]_vars

\* a ScraperManager over any configuration and one scrape_media call
InitScrape ==
    /\ TaskManagerInit
    /\ \E config \in ScraperConfigs :
          scraper_manager = NewScraperManager(config)
    /\ handler = NoHandler
    /\ memory_manager = NoMemoryManager
    /\ media = NoMedia
    /\ base_scraper = NoBaseScraper
    /\ file_process = NoFileProcess
    /\ organizer = NoOrganizer
    /\ file_watcher = NoFileWatcher
    /\ file_processor = NoFileProcessor
    /\ resource_monitor = NoResourceMonitor

NextScrape ==
    \/ scrape_media_call
    \/ scrape_media_next
    \/ scrape_media_none

SpecScrape == InitScrape /\ [][NextScrape]_vars

\* a STRMFileHandler receiving events while the clock runs
InitWatch ==
    /\ TaskManagerInit
    /\ scraper_manager = NoScraperManager
    /\ handler = NewHandler
    /\ memory_manager = NoMemoryManager
    /\ media = NoMedia
    /\ base_scraper = NoBaseScraper
    /\ file_process = NoFileProcess
    /\ organizer = NoOrganizer
    /\ file_watcher = NoFileWatcher
    /\ file_processor = NoFileProcessor
    /\ resource_monitor = NoResourceMonitor

NextWatch ==
    \/ \E p \in WatchPaths, loop_running \in BOOLEAN :
            on_modified(p, loop_running)
    \/ Tick
    \/ \E k \in TimerIds, exists \in BOOLEAN, content_empty \in BOOLEAN :
            debounced_task(k, exists, content_empty)

SpecWatch == InitWatch /\ [][NextWatch]_vars

\* a MemoryManager of any limit checking any resident set size
InitMemory ==
    /\ TaskManagerInit
    /\ scraper_manager = NoScraperManager
    /\ handler = NoHandler
    /\ \E max_memory_mb \in 1..MaxMemoryMb, rss_mb \in 0..MaxRssMb :
          memory_manager = NewMemoryManager(max_memory_mb, rss_mb)
    /\ media = NoMedia
    /\ base_scraper = NoBaseScraper
    /\ file_process = NoFileProcess
    /\ organizer = NoOrganizer
    /\ file_watcher = NoFileWatcher
    /\ file_processor = NoFileProcessor
    /\ resource_monitor = NoResourceMonitor

NextMemory ==
    \/ \E system_high \in BOOLEAN : check_memory_usage(system_high)
    \/ should_trigger_gc
    \/ get_recommendations

SpecMemory == InitMemory /\ [][NextMemory]_vars

\* the worker's parser applied to any of the file names
InitMedia ==
    /\ TaskManagerInit
    /\ scraper_manager = NoScraperManager
    /\ handler = NoHandler
    /\ memory_manager = NoMemoryManager
    /\ \E file_name \in FileNames :
          media = [pc |-> "named", file_name |-> file_name, info |-> <<>>]
    /\ base_scraper = NoBaseScraper
    /\ file_process = NoFileProcess
    /\ organizer = NoOrganizer
    /\ file_watcher = NoFileWatcher
    /\ file_processor = NoFileProcessor
    /\ resource_monitor = NoResourceMonitor

NextMedia == extract_file_name

SpecMedia == InitMedia /\ [][NextMedia]_vars

\* the ScraperManager the engine builds, for any settings and any behaviour
\* of the six sources, and one scrape_media call
InitEngineChain ==
    /\ TaskManagerInit
    /\ \E has_key \in [EngineConfigured -> BOOLEAN],
          first_ok \in [1..Len(ScraperClasses) -> 0..(MaxScrapeRetry + 1)] :
          scraper_manager =
              NewScraperManager(init_scraper_manager(has_key, first_ok))
    /\ handler = NoHandler
    /\ memory_manager = NoMemoryManager
    /\ media = NoMedia
    /\ base_scraper = NoBaseScraper
    /\ file_process = NoFileProcess
    /\ organizer = NoOrganizer
    /\ file_watcher = NoFileWatcher
    /\ file_processor = NoFileProcessor
    /\ resource_monitor = NoResourceMonitor

SpecEngineChain == InitEngineChain /\ [][NextScrape]_vars

\* one scraper of any retry_count, enabled or not, and one scrape call
\* against any sequence of answers
InitRetry ==
    /\ TaskManagerInit
    /\ scraper_manager = NoScraperManager
    /\ handler = NoHandler
    /\ memory_manager = NoMemoryManager
    /\ media = NoMedia
    /\ \E enabled \in BOOLEAN, retry_count \in 0..MaxRetryCount,
          responses \in ResponseSeqs :
          base_scraper = NewBaseScraper(enabled, retry_count, responses)
    /\ file_process = NoFileProcess
    /\ organizer = NoOrganizer
    /\ file_watcher = NoFileWatcher
    /\ file_processor = NoFileProcessor
    /\ resource_monitor = NoResourceMonitor

NextRetry ==
    \/ scrape_call
    \/ scrape_attempt
    \/ scrape_backoff

SpecRetry == InitRetry /\ [][NextRetry]_vars

\* one marker file of any name and content, with and without a scraper
\* manager, whatever the scrapers and the copy would do
InitProcess ==
    /\ TaskManagerInit
    /\ scraper_manager = NoScraperManager
    /\ handler = NoHandler
    /\ memory_manager = NoMemoryManager
    /\ media = NoMedia
    /\ base_scraper = NoBaseScraper
    /\ \E file_name \in FileNames, content_empty \in BOOLEAN,
          scraper_manager_set \in BOOLEAN, resolves \in BOOLEAN,
          copy_ok \in BOOLEAN :
          file_process = NewFileProcess(file_name, content_empty,
                                        scraper_manager_set, resolves,
                                        copy_ok)
    /\ organizer = NoOrganizer
    /\ file_watcher = NoFileWatcher
    /\ file_processor = NoFileProcessor
    /\ resource_monitor = NoResourceMonitor

NextProcess == process_strm_file

SpecProcess == InitProcess /\ [][NextProcess]_vars

\* a task of any strategy over two distinct marker files, whatever was
\* scraped for them
InitOrganize ==
    /\ TaskManagerInit
    /\ scraper_manager = NoScraperManager
    /\ handler = NoHandler
    /\ memory_manager = NoMemoryManager
    /\ media = NoMedia
    /\ base_scraper = NoBaseScraper
    /\ file_process = NoFileProcess
    /\ \E strategy \in OrganizeStrategies, enable_subcategory \in BOOLEAN,
          f1 \in SourceFiles, f2 \in SourceFiles,
          s1 \in ScrapedData, s2 \in ScrapedData :
          /\ f1 # f2
          /\ organizer = NewOrganizer(strategy, enable_subcategory,
                                      <<f1, f2>>, <<s1, s2>>)
    /\ file_watcher = NoFileWatcher
    /\ file_processor = NoFileProcessor
    /\ resource_monitor = NoResourceMonitor

NextOrganize ==
    \/ _organize_file
    \/ organize_done

SpecOrganize == InitOrganize /\ [][NextOrganize]_vars

\* a FileWatcher over roots of which any may be an existing directory
InitFileWatcher ==
    /\ TaskManagerInit
    /\ scraper_manager = NoScraperManager
    /\ handler = NoHandler
    /\ memory_manager = NoMemoryManager
    /\ media = NoMedia
    /\ base_scraper = NoBaseScraper
    /\ file_process = NoFileProcess
    /\ organizer = NoOrganizer
    /\ \E dirs \in SUBSET Roots : file_watcher = NewFileWatcher(dirs)
    /\ file_processor = NoFileProcessor
    /\ resource_monitor = NoResourceMonitor

NextFileWatcher ==
    \/ \E path \in Roots : add_watch_path(path)
    \/ \E path \in Roots : remove_watch_path(path)
    \/ start
    \/ stop_watching
    \/ \E n \in Roots : start_watching(n)
    \/ \E h \in 1..MaxHandlers, loop_running \in BOOLEAN :
            dispatch(h, loop_running)
    \/ \E h \in 1..MaxHandlers, exists \in BOOLEAN : timer_fires(h, exists)

SpecFileWatcher == InitFileWatcher /\ [][NextFileWatcher]_vars

\* the global file_processor with producers and its single consumer
InitProcessor ==
    /\ TaskManagerInit
    /\ scraper_manager = NoScraperManager
    /\ handler = NoHandler
    /\ memory_manager = NoMemoryManager
    /\ media = NoMedia
    /\ base_scraper = NoBaseScraper
    /\ file_process = NoFileProcess
    /\ organizer = NoOrganizer
    /\ file_watcher = NoFileWatcher
    /\ file_processor = NewFileProcessor
    /\ resource_monitor = NoResourceMonitor

NextProcessor ==
    \/ \E p \in 1..MaxPaths, content_empty \in BOOLEAN :
            put(p, content_empty)
    \/ process_queue
    \/ poll
    \/ stop_processing

SpecProcessor == InitProcessor /\ [][NextProcessor]_vars

\* a ResourceMonitor without proxy manager, as constructed at
\* api/main.py:435, with any alert callbacks
InitMonitor ==
    /\ TaskManagerInit
    /\ scraper_manager = NoScraperManager
    /\ handler = NoHandler
    /\ memory_manager = NoMemoryManager
    /\ media = NoMedia
    /\ base_scraper = NoBaseScraper
    /\ file_process = NoFileProcess
    /\ organizer = NoOrganizer
    /\ file_watcher = NoFileWatcher
    /\ file_processor = NoFileProcessor
    /\ resource_monitor = NewResourceMonitor(MaxMemoryMb, NoProxyManager)

NextMonitor ==
    \/ \E callback \in Callbacks : add_alert_callback(callback)
    \/ start_monitoring
    \/ \E rss_mb \in SampledRss, check_ok \in BOOLEAN :
            sample(rss_mb, check_ok)
    \/ invoke_callback
    \/ \E success \in BOOLEAN : proxy_check(success)
    \/ stop_monitoring

SpecMonitor == InitMonitor /\ [][NextMonitor]_vars

\* a ResourceMonitor over a proxy manager, enabled or not
InitProxyMonitor ==
    /\ TaskManagerInit
    /\ scraper_manager = NoScraperManager
    /\ handler = NoHandler
    /\ memory_manager = NoMemoryManager
    /\ media = NoMedia
    /\ base_scraper = NoBaseScraper
    /\ file_process = NoFileProcess
    /\ organizer = NoOrganizer
    /\ file_watcher = NoFileWatcher
    /\ file_processor = NoFileProcessor
    /\ \E enabled \in BOOLEAN :
          resource_monitor =
              NewResourceMonitor(MaxMemoryMb, NewProxyManager(enabled))

NextProxyMonitor ==
    \/ start_monitoring
    \/ \E rss_mb \in SampledRss, check_ok \in BOOLEAN :
            sample(rss_mb, check_ok)
    \/ \E success \in BOOLEAN : proxy_check(success)
    \/ stop_monitoring

SpecProxyMonitor == InitProxyMonitor /\ [][NextProxyMonitor]_vars

(* ------------------------------ claims -------------------------------- *)
TaskStatus == {"pending", "running", "paused", "completed", "failed",
               "cancelled"}

TypeOK ==
    /\ DOMAIN tasks \subseteq TaskIds
    /\ \A t \in DOMAIN tasks : tasks[t].status \in TaskStatus
    /\ DOMAIN task_workers \subseteq TaskIds
    /\ \A t \in DOMAIN task_workers : task_workers[t] \in DOMAIN workers
    /\ Len(workers) <= MaxWorkers
    /\ \A w \in DOMAIN workers :
          workers[w].pc \in {"created", "loop", "scraping", "recorded",
                             "completing", "done"}

\* worker w is inside the file loop of execute(): a file is in flight, or
\* the loop is about to take the next one
Executing(w) ==
    \/ workers[w].pc \in {"scraping", "recorded"}
    \/ workers[w].pc = "loop" /\ workers[w].running /\ ~LoopDone(w)

ExecutingFor(t) ==
    {w \in DOMAIN workers : workers[w].task_id = t /\ Executing(w)}

\* C1: at any time at most one worker of a task id is executing its file
\* loop, whatever the interleaving of start, pause, cancel and retry.
C1_AtMostOneWorkerPerTask ==
    \A t \in TaskIds : Cardinality(ExecutingFor(t)) <= 1

\* C2: in every state, a task's persisted progress is 100 exactly when its
\* status is completed.
C2_Progress100IffCompleted ==
    \A t \in DOMAIN tasks :
        (tasks[t].progress = Progress100) <=> (tasks[t].status = "completed")

C4_CancelledIsStable ==
    [][\A t \in DOMAIN tasks :
          tasks[t].status = "cancelled" => tasks'[t].status = "cancelled"]_vars

\* the edges of the task state machine; cancelTask is valid from every
\* non-terminal status, so pending -> cancelled is taken as an edge too
StatusEdges ==
    {<<"pending", "running">>, <<"pending", "cancelled">>,
     <<"running", "completed">>, <<"running", "paused">>,
     <<"running", "cancelled">>, <<"running", "failed">>,
     <<"paused", "running">>, <<"paused", "cancelled">>}

\* C5: every change of a task's status follows an edge of the state machine
\* (failed -> running only in a retryFailedFiles step); in particular no
\* step changes a completed, cancelled or failed status otherwise.
C5_StatusFollowsEdges ==
    [][\A t \in DOMAIN tasks :
          \/ tasks'[t].status = tasks[t].status
          \/ <<tasks[t].status, tasks'[t].status>> \in StatusEdges
          \/ /\ tasks[t].status = "failed"
             /\ tasks'[t].status = "running"
             /\ retry_failed_files(t)]_vars

\* C6: a retryFailedFiles(t) step turns exactly the records of task t with
\* status failed and retry_count < max into pending records with the error
\* message cleared and retry_count one higher, leaves every other record as
\* it was, and returns the number of records it reset.
C6_RetryResetsExactlyEligible ==
    [][\A t \in TaskIds :
          retry_failed_files(t) =>
            /\ DOMAIN file_records' = DOMAIN file_records
            /\ \A k \in DOMAIN file_records :
                  IF /\ file_records[k].task_id = t
                     /\ file_records[k].status = "failed"
                     /\ file_records[k].retry_count < settings_retry_count
                  THEN file_records'[k] =
                         [task_id |-> file_records[k].task_id,
                          source_path |-> file_records[k].source_path,
                          status |-> "pending",
                          retry_count |-> file_records[k].retry_count + 1,
                          error_message |-> "None"]
                  ELSE file_records'[k] = file_records[k]
            /\ result'.op = "retry_failed_files"
            /\ result'.value =
                  Cardinality({k \in DOMAIN file_records :
                                  file_records'[k] # file_records[k]})]_vars

\* a retry on one task has just reset a record of that task while a failed
\* record of another task is still failed
C6_Witness ==
    /\ result.op = "retry_failed_files"
    /\ result.value >= 1
    /\ \E k \in DOMAIN file_records :
          /\ file_records[k].task_id = result.task_id
          /\ file_records[k].status = "pending"
          /\ file_records[k].retry_count = 1
    /\ \E k \in DOMAIN file_records :
          /\ file_records[k].task_id # result.task_id
          /\ file_records[k].status = "failed"

\* C7: a retryFailedFiles step that resets at least one record leaves the
\* task running with an unfinished worker registered for it.
C7_RetryReentersRunning ==
    [][\A t \in TaskIds :
          (retry_failed_files(t) /\ result'.value > 0) =>
            /\ t \in DOMAIN tasks'
            /\ tasks'[t].status = "running"
            /\ t \in DOMAIN task_workers'
            /\ workers'[task_workers'[t]].pc # "done"]_vars

\* C8: no FileRecord's retry_count exceeds settings.retry_count (a limit
\* of 0 or more, fixed while the process runs).
C8_RetryCountAtMostMax ==
    \A k \in DOMAIN file_records :
        file_records[k].retry_count <= settings_retry_count

\* a retry has raised a record's retry_count to the configured maximum
C8_Witness ==
    /\ result.op = "retry_failed_files"
    /\ result.value >= 1
    /\ \E k \in DOMAIN file_records :
          /\ file_records[k].retry_count = settings_retry_count
          /\ file_records[k].retry_count >= 1

C11_PausedWorkerBeginsNoFile ==
    [][\A w \in WorkerIds :
          w \in pause_stopped => ~execute_next_file(w)]_vars

\* C12: a pauseTask step on a task that does not exist or whose status is
\* not running returns false and leaves every task's status, the worker map
\* and every worker's running flag as they were.
C12_PauseRefusedChangesNothing ==
    [][\A t \in TaskIds :
          (/\ pause_task(t)
           /\ t \in DOMAIN tasks => tasks[t].status # "running")
          => /\ result'.op = "pause_task"
             /\ result'.value = FALSE
             /\ DOMAIN tasks' = DOMAIN tasks
             /\ \A u \in DOMAIN tasks : tasks'[u].status = tasks[u].status
             /\ task_workers' = task_workers
             /\ DOMAIN workers' = DOMAIN workers
             /\ \A w \in DOMAIN workers :
                   workers'[w].running = workers[w].running]_vars

\* pause_task has just returned false for an existing task that is not
\* running and still has a worker in the worker map
C12_Witness ==
    /\ result.op = "pause_task"
    /\ result.value = FALSE
    /\ result.task_id \in DOMAIN tasks
    /\ tasks[result.task_id].status # "running"
    /\ result.task_id \in DOMAIN task_workers

\* C13: a startTask step on a task that does not exist or whose status is
\* running or completed returns false, constructs no worker and leaves the
\* task rows (status and started_at among them) and the worker map as they
\* were.
C13_StartRefusedChangesNothing ==
    [][\A t \in TaskIds :
          (/\ start_task(t)
           /\ t \in DOMAIN tasks =>
                 tasks[t].status \in {"running", "completed"})
          => /\ result'.op = "start_task"
             /\ result'.value = FALSE
             /\ workers' = workers
             /\ task_workers' = task_workers
             /\ DOMAIN tasks' = DOMAIN tasks
             /\ \A u \in DOMAIN tasks :
                   /\ tasks'[u].status = tasks[u].status
                   /\ tasks'[u].started_at = tasks[u].started_at]_vars

\* start_task has just returned false for a completed task while another
\* worker could still be constructed
C13_Witness ==
    /\ result.op = "start_task"
    /\ result.value = FALSE
    /\ result.task_id \in DOMAIN tasks
    /\ tasks[result.task_id].status = "completed"
    /\ Len(workers) < MaxWorkers

\* C18: a createTask step whose source path does not exist raises the
\* validation error, inserts no Task and makes no directory; one whose
\* source exists makes the destination directory, inserts exactly one Task,
\* with status pending, and returns its id.
C18_CreateValidatesSource ==
    [][\A n \in 1..(MaxTasks + 1), source_exists \in BOOLEAN :
          create_task(n, source_exists) =>
            IF ~source_exists
            THEN /\ result'.op = "create_task raised ValueError"
                 /\ tasks' = tasks
                 /\ made_dirs' = made_dirs
            ELSE /\ result'.op = "create_task"
                 /\ result'.value \notin DOMAIN tasks
                 /\ DOMAIN tasks' = DOMAIN tasks \cup {result'.value}
                 /\ \A u \in DOMAIN tasks : tasks'[u] = tasks[u]
                 /\ tasks'[result'.value].status = "pending"
                 /\ made_dirs' = made_dirs \cup {result'.value}]_vars

\* create_task has just failed on a missing source after an earlier call
\* with an existing source made one task and one directory
C18_Witness ==
    /\ result.op = "create_task raised ValueError"
    /\ DOMAIN tasks = {1}
    /\ made_dirs = {1}

\* a step in which worker w fails on the file it is at
FileFailureStep(w) ==
    /\ execute_next_file(w) \/ execute_scraped(w)
    /\ Len(file_records') = Len(file_records) + 1

\* C20: a step in which a worker fails on a file appends a failed
\* FileRecord of that file with the error message, changes no task row (the
\* task does not become failed) and leaves the worker in its loop at the
\* next file with its running flag as it was; and a worker that leaves the
\* loop without having been stopped has attempted every file of its scan.
C20_FileFailureKeepsBatch ==
    [][\A w \in WorkerIds :
          /\ FileFailureStep(w) =>
                /\ file_records'[Len(file_records')] =
                      [task_id |-> workers[w].task_id,
                       source_path |-> workers[w].strm_files[workers[w].i + 1],
                       status |-> "failed",
                       retry_count |-> 0,
                       error_message |-> "error"]
                /\ tasks' = tasks
                /\ workers'[w].pc = "loop"
                /\ workers'[w].i = workers[w].i + 1
                /\ workers'[w].running = workers[w].running
          /\ (w \in DOMAIN workers' /\ workers'[w].pc = "completing") =>
                workers'[w].processed_count + workers'[w].failed_count
                    = Len(workers'[w].strm_files)]_vars

\* a worker has failed on both files of its scan, one after the other, has
\* left a failed record for each, and its task is still running
C20_Witness ==
    \E w \in DOMAIN workers :
        /\ Len(workers[w].strm_files) = 2
        /\ workers[w].failed_count = 2
        /\ workers[w].i = 2
        /\ workers[w].running
        /\ tasks[workers[w].task_id].status = "running"
        /\ \A f \in 1..2 : \E k \in DOMAIN file_records :
              /\ file_records[k].source_path = workers[w].strm_files[f]
              /\ file_records[k].status = "failed"
              /\ file_records[k].error_message = "error"

\* the configured class a scraper name stands for
ClassOf(name) == CHOOSE k \in 1..Len(ScraperClasses) : ScraperClasses[k] = name

\* what the configuration says of class k: it takes part in the chain, and
\* its source yields data within the attempts scrape() makes
Configured(k) == scraper_manager.config[k].enabled # "False"
Succeeds(k) == scraper_manager.config[k].first_ok \in 1..(MaxScrapeRetry + 1)
PriorityOf(k) == scraper_manager.config[k].priority

\* C14: when scrape_media has returned, the scrapers it invoked are enabled
\* ones taken in ascending priority; if it returned data, the data is that
\* of the last scraper invoked, which is the only invoked one that yields
\* data, and no enabled scraper of lower priority number was passed over;
\* if it returned nothing, every enabled scraper was invoked and none
\* yields data.
C14_FirstResultShortCircuits ==
    scraper_manager.pc = "returned" =>
      LET inv == scraper_manager.invoked
          n == Len(inv)
          res == scraper_manager.result
      IN  /\ \A i \in 1..n : Configured(ClassOf(inv[i]))
          /\ \A i, j \in 1..n : i < j =>
                /\ inv[i] # inv[j]
                /\ PriorityOf(ClassOf(inv[i])) <= PriorityOf(ClassOf(inv[j]))
          /\ \A i \in 1..n : Succeeds(ClassOf(inv[i])) <=> (res.found /\ i = n)
          /\ res.found =>
                /\ n >= 1
                /\ res.source = inv[n]
                /\ \A k \in 1..MaxScrapers :
                      (Configured(k) /\ \A i \in 1..n : ClassOf(inv[i]) # k)
                      => PriorityOf(k) >= PriorityOf(ClassOf(inv[n]))
          /\ ~res.found =>
                \A k \in 1..MaxScrapers :
                   Configured(k) => \E i \in 1..n : ClassOf(inv[i]) = k

\* a chain of three enabled scrapers, the first failing, the second and the
\* third yielding data: scrape_media has returned the second one's data
\* with two scrapers invoked
C14_Witness ==
    /\ scraper_manager.pc = "returned"
    /\ Len(scraper_manager.scrapers) = 3
    /\ Len(scraper_manager.invoked) = 2
    /\ ~Succeeds(ClassOf(scraper_manager.scrapers[1].name))
    /\ Succeeds(ClassOf(scraper_manager.scrapers[2].name))
    /\ Succeeds(ClassOf(scraper_manager.scrapers[3].name))
    /\ scraper_manager.result =
          [found |-> TRUE, source |-> scraper_manager.scrapers[2].name]

\* C15: with every scraper disabled by its configuration, scrape_media
\* invokes no scraper, makes no _scrape_impl call (so no network request)
\* and returns nothing.
C15_AllDisabledNoInvocation ==
    (\A k \in 1..MaxScrapers : scraper_manager.config[k].enabled = "False")
    => /\ scraper_manager.invoked = <<>>
       /\ scraper_manager.impl_calls = 0
       /\ scraper_manager.pc = "returned" => ~scraper_manager.result.found

\* scrape_media has returned on a configuration that disables every scraper
\* although each of their sources would yield data
C15_Witness ==
    /\ scraper_manager.pc = "returned"
    /\ \A k \in 1..MaxScrapers :
          /\ scraper_manager.config[k].enabled = "False"
          /\ scraper_manager.config[k].first_ok = 1

\* C16: for a path whose create/modify events each came within the
\* debounce window of the one before and whose file is still there, at
\* most one "changed" signal is emitted, none before a full quiet period
\* has passed since the last event, and exactly one once it has passed and
\* no timer is left to run.
C16_BurstEmitsExactlyOne ==
    \A p \in WatchPaths :
        (/\ handler.pc = "watching"
         /\ handler.events[p] >= 1
         /\ handler.in_window[p]
         /\ ~handler.missing[p])
        => /\ handler.emitted[p] <= 1
           /\ handler.emitted[p] = 1 => handler.quiet[p] = DebounceTicks
           /\ (handler.quiet[p] = DebounceTicks /\ ~TimerPending(p))
                 => handler.emitted[p] = 1

\* C17: after a check the level is normal when usage is below 80% of
\* max_memory, warning when it is at least 80% and below 95%, critical when
\* it is 95% or more.
C17_MemoryLevelThresholds ==
    memory_manager.pc = "checked" =>
      LET usage == memory_manager.rss_mb
          limit == memory_manager.max_memory_mb
      IN  /\ 100 * usage < 80 * limit => memory_manager.level = "normal"
          /\ (80 * limit <= 100 * usage /\ 100 * usage < 95 * limit)
                => memory_manager.level = "warning"
          /\ 95 * limit <= 100 * usage => memory_manager.level = "critical"

\* a check at exactly 80% of a limit of 100 MiB has answered warning
C17_Witness ==
    /\ memory_manager.pc = "checked"
    /\ memory_manager.max_memory_mb = 100
    /\ memory_manager.rss_mb = 80
    /\ memory_manager.level = "warning"

\* C19: the media info the worker extracts classifies "Alpha.strm" as a
\* movie without year, "Beta (2020).strm" as a movie of year 2020 and
\* "Gamma.S01E02.strm" as tv with season 1 and episode 2.
C19_TvPatternsBeforeMovie ==
    media.pc = "extracted" =>
      /\ media.file_name = <<"A", "l", "p", "h", "a">> \o Extension =>
            /\ media.info.type = "movie"
            /\ "year" \notin DOMAIN media.info
      /\ media.file_name = <<"B", "e", "t", "a", " ", "(", "2", "0", "2", "0",
                             ")">> \o Extension =>
            /\ media.info.type = "movie"
            /\ "year" \in DOMAIN media.info
            /\ media.info.year = <<"2", "0", "2", "0">>
      /\ media.file_name = <<"G", "a", "m", "m", "a", ".", "S", "0", "1", "E",
                             "0", "2">> \o Extension =>
            /\ media.info.type = "tv"
            /\ "season" \in DOMAIN media.info
            /\ media.info.season = 1
            /\ "episode" \in DOMAIN media.info
            /\ media.info.episode = 2

\* C21: in every state each FileRecord's task_id is the id of an existing
\* Task (deleting a task removes its records, and no worker writes a record
\* for a task that has been deleted).
C21_RecordsReferToTasks ==
    \A k \in DOMAIN file_records : file_records[k].task_id \in DOMAIN tasks

\* C22: a task's status is paused only once its worker has observed the stop
\* flag between two files and ended: while a worker of the task has not yet
\* taken the exit of its loop (it is not started, between files, inside a
\* file or finishing) the status is not paused.
C22_PausedOnlyAfterWorkerObserved ==
    \A w \in DOMAIN workers :
        (/\ workers[w].task_id \in DOMAIN tasks
         /\ tasks[workers[w].task_id].status = "paused")
            => workers[w].pc = "done"
\* the step in which worker w finishes its attempt on a file, either way
FileAttemptedStep(w) ==
    /\ w \in DOMAIN workers
    /\ w \in DOMAIN workers'
    /\ workers'[w].i = workers[w].i + 1

\* C23: after each file a worker attempts, succeeded or failed, the
\* persisted progress of its task is (processed + failed) / total * 100 for
\* the counters of that run.
C23_ProgressAfterEachFile ==
    [][\A w \in WorkerIds :
          (FileAttemptedStep(w) /\ workers[w].task_id \in DOMAIN tasks')
              => tasks'[workers[w].task_id].progress =
                     Progress(workers'[w].processed_count
                                  + workers'[w].failed_count,
                              Len(workers'[w].strm_files))]_vars
\* C24: after every step in which a worker fails on a file, the persisted
\* failed_files of its task is the number of files that have failed so far
\* in the run.
C24_FailedFilesAfterEachFailure ==
    [][\A w \in WorkerIds :
          (FileFailureStep(w) /\ workers[w].task_id \in DOMAIN tasks')
              => tasks'[workers[w].task_id].failed_files =
                     workers'[w].failed_count]_vars
C26_ResetRecordsLeavePending ==
    [][\A w \in WorkerIds :
          execute_complete(w) =>
              \A k \in DOMAIN file_records' :
                  <<w, k>> \in retry_reset
                      => file_records'[k].status # "pending"]_vars
\* the positions of the log at which _scrape_impl was invoked
AttemptsAt(log) == {i \in DOMAIN log : log[i].event = "attempt"}

\* C27: within one scrape call the implementation of an enabled scraper is
\* invoked at most retry_count + 1 times, whether its attempts raise or
\* return nothing, and never again after an attempt that returned data; a
\* disabled scraper's implementation is not invoked at all.
C27_AttemptsBounded ==
    base_scraper.pc # "none" =>
        LET log == base_scraper.log IN
            /\ Cardinality(AttemptsAt(log)) <= base_scraper.retry_count + 1
            /\ ~base_scraper.enabled => log = <<>>
            /\ \A i \in AttemptsAt(log), j \in AttemptsAt(log) :
                  _scrape_impl(log[i].response) = "data" => j <= i

\* a scrape call has returned nothing after retry_count + 1 > 1 attempts of
\* which one raised and one returned nothing
C27_Witness ==
    /\ base_scraper.pc = "returned"
    /\ base_scraper.result = "None"
    /\ base_scraper.retry_count >= 1
    /\ Cardinality(AttemptsAt(base_scraper.log)) = base_scraper.retry_count + 1
    /\ \E i \in AttemptsAt(base_scraper.log) :
          _scrape_impl(base_scraper.log[i].response) = "raises"
    /\ \E i \in AttemptsAt(base_scraper.log) :
          _scrape_impl(base_scraper.log[i].response) = "None"
\* C28: in the log of one scrape call every attempt but the last is
\* followed by exactly one sleep of 2^attempt seconds before the next
\* attempt, whether it raised or returned nothing, and nothing follows the
\* last attempt of a call that has returned.
C28_BackoffBetweenAttempts ==
    base_scraper.pc # "none" =>
        LET log == base_scraper.log IN
            /\ \A j \in AttemptsAt(log) :
                  j > 1 =>
                      /\ j > 2
                      /\ log[j - 1].event = "sleep"
                      /\ log[j - 2].event = "attempt"
                      /\ log[j - 1].seconds = 2 ^ log[j - 2].attempt
            /\ (base_scraper.pc = "returned" /\ log # <<>>)
                  => log[Len(log)].event = "attempt"

\* C29: an attempt answered with a permanent error (HTTP 401) is the last
\* attempt of the call and is followed by no sleep, while an attempt that
\* ended with a transient error (HTTP 500, timeout) and was not the last one
\* allowed is followed by a sleep and then by another attempt.
C29_PermanentErrorEndsScraper ==
    base_scraper.pc # "none" =>
        LET log == base_scraper.log IN
            \A i \in AttemptsAt(log) :
                /\ log[i].response = "http_401" => i = Len(log)
                /\ (/\ log[i].response \in {"http_500", "timeout"}
                    /\ log[i].attempt < base_scraper.retry_count
                    /\ i < Len(log))
                      => log[i + 1].event = "sleep"
\* the names with a configuration entry whose 'enabled' is true
EnabledByEntry ==
    {ScraperClasses[k] : k \in {j \in EngineConfigured :
        scraper_manager.config[j].enabled = "True"}}

\* C30: the chain of the ScraperManager the engine builds holds only
\* scrapers that have a configuration entry with enabled = true, scrape_media
\* invokes only such scrapers (so that no scraper without an entry is in
\* the chain, let alone ahead of one with an entry).
C30_ChainOnlyConfiguredEnabled ==
    scraper_manager.pc # "none" =>
        /\ \A i \in DOMAIN scraper_manager.scrapers :
              scraper_manager.scrapers[i].name \in EnabledByEntry
        /\ \A i \in DOMAIN scraper_manager.invoked :
              scraper_manager.invoked[i] \in EnabledByEntry
\* C31: a non-empty marker file whose title some enabled scraper resolves
\* and whose copy succeeds ends its iteration with exactly one record, a
\* completed one carrying the scraped data, counted as processed and not as
\* failed.
C31_ResolvableFileCompletes ==
    (/\ file_process.pc = "done"
     /\ ~file_process.content_empty
     /\ file_process.resolves
     /\ file_process.copy_ok)
        => /\ Len(file_process.records) = 1
           /\ file_process.records[1].status = "completed"
           /\ file_process.records[1].scraped_data # "None"
           /\ file_process.processed_count = 1
           /\ file_process.failed_count = 0
LiveTimers(p) ==
    {k \in DOMAIN handler.timers :
        handler.timers[k].path = p /\ handler.timers[k].state = "sleeping"}

\* C34: every path has at most one live debounce timer, a live timer is the
\* one the path -> timer map holds for its path, and the map holds no timer
\* that has fired.
C34_OneLiveTimerPerPath ==
    handler.pc # "none" =>
        /\ \A p \in WatchPaths : Cardinality(LiveTimers(p)) <= 1
        /\ \A p \in WatchPaths : \A k \in LiveTimers(p) :
              p \in DOMAIN handler.debounce_tasks
                  /\ handler.debounce_tasks[p] = k
        /\ \A p \in DOMAIN handler.debounce_tasks :
              handler.timers[handler.debounce_tasks[p]].state # "fired"

\* a path has had three timers: one has fired, one was cancelled by the
\* event that installed the third, which is sleeping
C34_Witness ==
    /\ handler.pc = "watching"
    /\ \E p \in WatchPaths :
          /\ \E k \in DOMAIN handler.timers :
                handler.timers[k].path = p /\ handler.timers[k].state = "fired"
          /\ \E k \in DOMAIN handler.timers :
                handler.timers[k].path = p
                    /\ handler.timers[k].state = "cancelled"
          /\ Cardinality(LiveTimers(p)) = 1
C36_StartWatchingRegistersPaths ==
    [][\A n \in Roots :
          (/\ start_watching(n)
           /\ ~file_watcher.running
           /\ file_watcher'.running)
              => \A path \in (1..n) \cap file_watcher.dirs :
                    /\ file_watcher'.observer = "started"
                    /\ path \in DOMAIN file_watcher'.watch_handlers
                    /\ file_watcher'.watch_handlers[path]
                           \in file_watcher'.scheduled]_vars
\* C37: when stop_processing has been called while the consumer is in its
\* loop, the first wait_for that completes afterwards, on an empty queue or
\* with an item, is the last: the consumer returns; and every item the
\* consumer took has been acknowledged by exactly one task_done().
C37_StopEndsConsumerWithinOnePoll ==
    [][/\ (/\ file_processor.pc = "wait_for"
           /\ ~file_processor.processing
           /\ poll)
              => file_processor'.pc = "returned"
       /\ file_processor'.pc # "none" =>
            /\ Len(file_processor'.acks) = Len(file_processor'.dequeued)
            /\ \A i \in DOMAIN file_processor'.acks :
                    file_processor'.acks[i] = 1
            /\ file_processor'.unfinished = Len(file_processor'.queue)]_vars

\* a consumer stopped while an item was waiting has taken it and returned
C37_Witness ==
    /\ file_processor.pc = "returned"
    /\ ~file_processor.processing
    /\ Len(file_processor.dequeued) >= 2
    /\ file_processor.queue # <<>>

\* every piece of the advice is among the recommendations returned
Advised(advice, recommendations) ==
    \A i \in DOMAIN advice :
        \E j \in DOMAIN recommendations : recommendations[j] = advice[i]

\* C40: after a sample, what get_recommendations and should_trigger_gc
\* return agrees with the level classified for the sample: the critical
\* advice exactly when the level is critical, the warning advice exactly
\* when it is warning, and should_trigger_gc true exactly when the level is
\* not normal.
C40_StatusAgreesWithLevel ==
    memory_manager.pc = "checked" =>
      /\ memory_manager.recommendations # <<"none">> =>
            /\ Advised(CriticalAdvice, memory_manager.recommendations)
                  <=> memory_manager.level = "critical"
            /\ Advised(WarningAdvice, memory_manager.recommendations)
                  <=> memory_manager.level = "warning"
      /\ memory_manager.gc # "none" =>
            (memory_manager.gc = "True"
                <=> memory_manager.level # "normal")
\* C38: when the alerts of a sample are over, every registered callback,
\* synchronous or asynchronous, raising or not, has been called exactly once
\* for a warning or critical sample, in registration order and with {type,
\* data, timestamp}, and none for any other sample; and the task goes on to
\* its sleep and its next sample.
C38_EveryCallbackOncePerAlert ==
    [][LET rm == resource_monitor
           after == resource_monitor'
       IN /\ (/\ rm.pc \in {"scheduled", "sleep", "alerts"}
              /\ after.pc \in {"proxy", "sleep"}
              /\ after.pc # rm.pc)
                => /\ after.pc = "proxy"
                   /\ after.invoked =
                        IF after.level \in {"warning", "critical"}
                        THEN [k \in 1..Len(after.alert_callbacks) |->
                                [callback |-> k,
                                 info |-> [type |-> "memory",
                                           data |-> after.level,
                                           timestamp |-> after.now]]]
                        ELSE <<>>
          /\ (rm.pc = "proxy" /\ after.pc # "proxy") => after.pc = "sleep"
          /\ (rm.pc = "sleep" /\ rm.monitoring /\ after.monitoring)
                => after.pc \in {"sleep", "alerts", "proxy"}]_vars

\* the alerts of a critical sample are over with an asynchronous callback
\* that raised called before a synchronous one
C38_Witness ==
    /\ resource_monitor.pc = "proxy"
    /\ resource_monitor.level = "critical"
    /\ Len(resource_monitor.alert_callbacks) = 2
    /\ resource_monitor.alert_callbacks[1] =
            [is_async |-> TRUE, raises |-> TRUE]
    /\ ~resource_monitor.alert_callbacks[2].is_async
    /\ Len(resource_monitor.invoked) = 2

\* C39: a proxy test the monitor loop issues for an enabled proxy comes at
\* least one hour after the test the loop issued before it, whether that one
\* succeeded or failed.
C39_ProxyTestsOneHourApart ==
    [][\A success \in BOOLEAN :
          (/\ proxy_check(success)
           /\ TestDue(resource_monitor)
           /\ resource_monitor.last_issued.at >= 0)
              => resource_monitor.now - resource_monitor.last_issued.at
                    >= retest_interval]_vars

=============================================================================
